---- MODULE Spec2Model ----
(***************************************************************************)
(* TerminalRewind: the command ledger (TerminalRewindDB), the file change  *)
(* tracker and backup store (FileTracker), the recorder (CommandRecorder)  *)
(* and the rollback engine (RollbackManager) of src/terminalrewind.py.     *)
(***************************************************************************)
EXTENDS Integers, Sequences, FiniteSets, TLC

\* ---------------------------------------------------------------- bounds
MaxClock == 1
MaxCommands == 2
MaxChanges == 2
MaxSessions == 2
MaxBackups == 1

\* ------------------------------------------------------- optional values
\* Python's None / SQL NULL is the empty tuple, a present value v is <<v>>.
Null == <<>>
Some(v) == <<v>>
IsNull(o) == o = Null
Val(o) == o[1]

\* ------------------------------------------------------------ file system
\* Two files below the working directory that share the basename "f".
Paths == {"f", "sub/f"}
Basename(p) == IF p = "sub/f" THEN "f" ELSE p
Contents == {"v1", "v2"}
\* A live file is Null (absent) or Some(bytes).  Its modification time is
\* not kept: whoever reads it (copy2) gets some reading not after the clock.
File(c) == Some(c)
Exists(F, p) == ~IsNull(F[p])

\* hashlib.md5 of the bytes: a fixed injective map on the modelled contents.
Md5(c) == IF c = "v1" THEN "8b9e" ELSE "a2f1"

VARIABLES
    now,                 \* the wall clock reading (datetime.now / time.time)
    sessions,            \* table sessions: id -> row
    commands,            \* table commands: sequence of rows, id = index
    commands_fts,        \* table commands_fts: the rowids it indexes
    file_changes,        \* table file_changes: sequence of rows
    fs,                  \* live files: path -> Null | Some(bytes)
    backups,             \* backup directory: location -> [c, m]
    watched,             \* FileTracker._watched_files of the recorder's tracker
    baseline,            \* history: the bytes each watched path held when
                         \* the last watch call read it
    current_session_id,  \* CommandRecorder.current_session_id
    recorded,            \* history: per session row, the commands recorded
                         \* on it since it was inserted (n) and those among
                         \* them with no exit code (nulls)
    last                 \* the last call and what it returned

vars == <<now, sessions, commands, commands_fts, file_changes, fs, backups,
          watched, baseline, current_session_id, recorded, last>>

\* ----------------------------------------------------------------- ledger
\* Session ids are strings; [t, n] stands for the string built from a clock
\* reading and a name, and AdHocId for a caller-chosen string.
AdHocId == [t |-> -1, n |-> "adhoc"]
ExitCodes == {Null, Some(0), Some(1)}
\* Command text and captured stdout are strings; a tuple of words stands for
\* the string, as the search index sees it.
Plain == <<"ls">>
SessionNames == {Null, Some("a b")}
Descriptions == {Null, Some("d")}

\* CASE WHEN ? = 0 THEN 1 ELSE 0 END: a NULL operand makes the comparison NULL,
\* which CASE treats as not true.
SqlEqZero(e) == IF IsNull(e) THEN 0 ELSE IF Val(e) = 0 THEN 1 ELSE 0
\* Python's "exit_code != 0", which holds for None.
NoneNeZero(e) == IF IsNull(e) THEN 1 ELSE IF Val(e) # 0 THEN 1 ELSE 0
SqlNeZero(e) == IF IsNull(e) THEN 0 ELSE IF Val(e) # 0 THEN 1 ELSE 0

\* INSERT OR REPLACE INTO sessions (id, name, ..., started_at, ...): the row
\* with this id, if any, is deleted and a new row is inserted; the columns
\* the statement does not name take their defaults.
\* INSERT OR IGNORE: a row that exists is kept as it is.
InsertOrIgnoreSession(S, id, name, description, t) ==
    S @@ (id :> [name |-> name, description |-> description,
                 started_at |-> t, ended_at |-> Null, command_count |-> 0,
                 success_count |-> 0, error_count |-> 0])
InsertOrReplaceSession(S, id, name, description, t) ==
    (id :> [name |-> name, description |-> description, started_at |-> t,
            ended_at |-> Null, command_count |-> 0, success_count |-> 0,
            error_count |-> 0]) @@ S

\* An end_session that inserts the row it does not find.
UpsertSessionEnd(S, id, t) ==
    [s \in DOMAIN S \cup {id} |->
        IF s = id
        THEN [name |-> Null, description |-> Null, started_at |-> t,
              ended_at |-> Some(t), command_count |-> 0, success_count |-> 0,
              error_count |-> 0]
        ELSE S[s]]
\* UPDATE sessions SET ended_at = ? WHERE id = ?
UpdateSessionEnd(S, id, t) ==
    [s \in DOMAIN S |-> IF s = id THEN [S[s] EXCEPT !.ended_at = Some(t)] ELSE S[s]]

\* A counter update that also reopens the session.
UpdateSessionStatsReopen(S, id, exit) ==
    [s \in DOMAIN S |->
        IF s = id
        THEN [S[s] EXCEPT !.command_count = @ + 1, !.ended_at = Null]
        ELSE S[s]]
\* UPDATE sessions SET command_count = command_count + 1, ... WHERE id = ?
UpdateSessionStats(S, id, exit) ==
    [s \in DOMAIN S |->
        IF s = id
        THEN [S[s] EXCEPT !.command_count = @ + 1,
                          !.success_count = @ + SqlEqZero(exit),
                          !.error_count = @ + SqlNeZero(exit)]
        ELSE S[s]]

\* INSERT INTO commands (...): AUTOINCREMENT id = position in the sequence.
InsertCommand(C, sid, t, exit, command, output, error_output) ==
    Append(C, [session_id |-> sid, timestamp |-> t, exit_code |-> exit,
               command |-> command, output |-> output,
               error_output |-> error_output])

\* INSERT INTO commands_fts(rowid, command, output)
InsertFts(X, rowid) == X \cup {rowid}

\* An insert that replaces the row of the same command and path, if any.
UpsertFileChange(FC, cid, path, kind, old_hash, new_hash, backup_path) ==
    LET row == [command_id |-> cid, file_path |-> path, change_type |-> kind,
                old_hash |-> old_hash, new_hash |-> new_hash,
                backup_path |-> backup_path]
        same(r) == r.command_id = cid /\ r.file_path = path
    IN  IF \E i \in DOMAIN FC : same(FC[i])
        THEN [i \in DOMAIN FC |-> IF same(FC[i]) THEN row ELSE FC[i]]
        ELSE Append(FC, row)
\* INSERT INTO file_changes (...)
InsertFileChange(FC, cid, path, kind, old_hash, new_hash, backup_path) ==
    Append(FC, [command_id |-> cid, file_path |-> path, change_type |-> kind,
                old_hash |-> old_hash, new_hash |-> new_hash,
                backup_path |-> backup_path])

\* SELECT * FROM file_changes WHERE command_id = ?
get_file_changes(FC, cid) == SelectSeq(FC, LAMBDA r : r.command_id = cid)

\* ------------------------------------------------------------ FileTracker
\* A key of _watched_files / of a directory snapshot is a string: the
\* absolute path given to watch_files ("abs") or the path relative to the
\* walked directory ("rel").  Both name the file KeyPath(key).
AbsKey(p) == [k |-> "abs", p |-> p]
RelKey(p) == [k |-> "rel", p |-> p]
KeyPath(key) == key.p

\* Both modelled contents are two bytes long.
Size(c) == IF c \in Contents THEN 2 ELSE 0
\* A digest that is only the size of the file.
SizeAsHash(F, p) == IF Exists(F, p) THEN Some(Size(Val(F[p]))) ELSE Null
get_file_hash(F, p) == IF Exists(F, p) THEN Some(Md5(Val(F[p]))) ELSE Null

\* directory.rglob("*") restricted to files, keyed by the relative path.
snapshot_directory(F) ==
    [key \in {RelKey(p) : p \in {q \in Paths : Exists(F, q)}} |->
        get_file_hash(F, KeyPath(key))]

watch_files(F, files) ==
    [key \in {AbsKey(p) : p \in files} |-> get_file_hash(F, KeyPath(key))]

watch_directory(F) == snapshot_directory(F)

Change(path, type, old_hash, new_hash) ==
    [path |-> path, type |-> type, old_hash |-> old_hash, new_hash |-> new_hash]

RECURSIVE Flatten(_)
Flatten(ss) == IF ss = <<>> THEN <<>> ELSE Head(ss) \o Flatten(Tail(ss))

\* The keys of a dict in iteration order: ord lists the paths in the order
\* the dict holds them (insertion order for watch_files, rglob order for a
\* snapshot).
KeysInOrder(D, ord) ==
    Flatten([i \in 1..Len(ord) |->
        (IF AbsKey(ord[i]) \in DOMAIN D THEN <<AbsKey(ord[i])>> ELSE <<>>)
        \o (IF RelKey(ord[i]) \in DOMAIN D THEN <<RelKey(ord[i])>> ELSE <<>>)])

\* A directory comparison that forgets the files that appeared.
DetectDirectoryNoCreated(W, F, ord) ==
    LET cur == snapshot_directory(F)
        wk == KeysInOrder(W, ord)
        OldEntry(key) ==
            IF key \in DOMAIN cur
            THEN IF W[key] # cur[key]
                 THEN <<Change(KeyPath(key), "modified", W[key], cur[key])>>
                 ELSE <<>>
            ELSE <<Change(KeyPath(key), "deleted", W[key], Null)>>
    IN  Flatten([i \in 1..Len(wk) |-> OldEntry(wk[i])])

\* detect_changes(directory), the branch "if directory".
DetectDirectory(W, F, ord) ==
    LET cur == snapshot_directory(F)
        wk == KeysInOrder(W, ord)
        ck == KeysInOrder(cur, ord)
        OldEntry(key) ==
            IF key \in DOMAIN cur
            THEN IF W[key] # cur[key]
                 THEN <<Change(KeyPath(key), "modified", W[key], cur[key])>>
                 ELSE <<>>
            ELSE <<Change(KeyPath(key), "deleted", W[key], Null)>>
        NewEntry(key) ==
            IF key \notin DOMAIN W
            THEN <<Change(KeyPath(key), "created", Null, cur[key])>>
            ELSE <<>>
    IN  Flatten([i \in 1..Len(wk) |-> OldEntry(wk[i])])
        \o Flatten([i \in 1..Len(ck) |-> NewEntry(ck[i])])

\* A per-file comparison that reports a path absent at both times.
DetectFilesAbsent(W, F, ord) ==
    LET wk == KeysInOrder(W, ord)
        Entry(key) ==
            LET old_hash == W[key]
                new_hash == get_file_hash(F, KeyPath(key))
            IN  IF IsNull(new_hash)
                THEN <<Change(KeyPath(key), "deleted", old_hash, Null)>>
                ELSE IF IsNull(old_hash)
                THEN <<Change(KeyPath(key), "created", Null, new_hash)>>
                ELSE IF old_hash # new_hash
                THEN <<Change(KeyPath(key), "modified", old_hash, new_hash)>>
                ELSE <<>>
    IN  Flatten([i \in 1..Len(wk) |-> Entry(wk[i])])

\* detect_changes(None), the branch "else": each watched path on its own.
DetectFiles(W, F, ord) ==
    LET wk == KeysInOrder(W, ord)
        Entry(key) ==
            LET old_hash == W[key]
                new_hash == get_file_hash(F, KeyPath(key))
            IN  IF IsNull(old_hash) /\ ~IsNull(new_hash)
                THEN <<Change(KeyPath(key), "created", Null, new_hash)>>
                ELSE IF ~IsNull(old_hash) /\ IsNull(new_hash)
                THEN <<Change(KeyPath(key), "deleted", old_hash, Null)>>
                ELSE IF old_hash # new_hash
                THEN <<Change(KeyPath(key), "modified", old_hash, new_hash)>>
                ELSE <<>>
    IN  Flatten([i \in 1..Len(wk) |-> Entry(wk[i])])

detect_changes(W, F, directory, ord) ==
    IF directory THEN DetectDirectory(W, F, ord) ELSE DetectFiles(W, F, ord)

\* The tracker on paths the process may not be allowed to reach.  A path is
\* "ok", "unreadable" (open raises PermissionError) or "denied" (a directory
\* above it refuses search, so stat raises PermissionError).  strict: the
\* interpreter's Path.exists() lets that error through; otherwise it answers
\* False.
Access == {"ok", "unreadable", "denied"}
\* The bytes the tracker can hash.
Readable(F, io) == [p \in Paths |-> IF io[p] = "ok" THEN F[p] ELSE Null]
\* file_path.exists() sits before the try of get_file_hash.
HashRaises(io, strict, p) == strict /\ io[p] = "denied"
FileHash(F, p, io, strict) ==
    [raised |-> HashRaises(io, strict, p),
     ret |-> IF HashRaises(io, strict, p) THEN Null
             ELSE get_file_hash(Readable(F, io), p)]
\* The loop of watch_files over the list files: the entries written before
\* get_file_hash raises, if it does.
FirstRaising(files, io, strict) ==
    LET bad == {i \in DOMAIN files : HashRaises(io, strict, files[i])}
    IN  IF bad = {} THEN 0 ELSE CHOOSE i \in bad : \A j \in bad : i <= j
WatchedBefore(F, files, io, strict) ==
    LET k == FirstRaising(files, io, strict)
        done == {files[i] : i \in {j \in DOMAIN files : k = 0 \/ j < k}}
    IN  watch_files(Readable(F, io), done)
\* snapshot_directory: rglob lists the files it can reach; one it cannot
\* open is listed without digest.
SnapshotReachable(F, io) ==
    [key \in {RelKey(p) : p \in {q \in Paths : Exists(F, q) /\ io[q] # "denied"}} |->
        get_file_hash(Readable(F, io), KeyPath(key))]
\* directory.exists() sits before the try of snapshot_directory.  root: the
\* directory asked for is the tracked one ("ok"), does not exist
\* ("missing"), or lies below a directory that refuses search ("denied").
Roots == {"ok", "missing", "denied"}
SnapshotRaises(root, strict) == strict /\ root = "denied"
Snapshot(F, root, io) == IF root = "ok" THEN SnapshotReachable(F, io) ELSE <<>>

\* ------------------------------------------------------------ backup store
\* backup_name = f"cmd_{command_id}_{timestamp}_{file_path.name}"
BackupName(p, cid, t) == [cmd |-> cid, ts |-> t, name |-> Basename(p)]

\* backup_file: what it returns, and the backup directory after it.
\* fault: shutil.copy2 raised IOError / PermissionError; mtime: the source's
\* modification time, which copy2 gives to the copy.
BackupResult(F, p, cid, t, fault) ==
    IF ~Exists(F, p) \/ fault THEN Null ELSE Some(BackupName(p, cid, t))
BackupStore(F, B, p, cid, t, fault, mtime) ==
    IF ~Exists(F, p) \/ fault THEN B
    ELSE (BackupName(p, cid, t) :> [c |-> Val(F[p]), m |-> mtime]) @@ B

\* A restore whose copy does not carry the backup's bytes.
RestoreFilesOtherBytes(F, B, loc, p, fault) ==
    IF loc \in DOMAIN B /\ ~fault
    THEN [F EXCEPT ![p] = IF B[loc].c = "v1" THEN File("v2") ELSE File("v1")]
    ELSE F

\* A restore that writes only over a destination that is there.
RestoreFilesExisting(F, B, loc, p, fault) ==
    IF loc \in DOMAIN B /\ ~fault /\ Exists(F, p)
    THEN [F EXCEPT ![p] = File(B[loc].c)] ELSE F

\* restore_file: what it returns, and the live files after it.
RestoreResult(B, loc, p, fault) == loc \in DOMAIN B /\ ~fault
RestoreFiles(F, B, loc, p, fault) ==
    IF loc \in DOMAIN B /\ ~fault THEN [F EXCEPT ![p] = File(B[loc].c)] ELSE F

\* cleanup_old_backups(days) at clock reading t.
\* A cleanup that stops at the first backup it cannot delete: of the backups
\* past the cutoff it deletes none once one is denied.
CleanupStoreAbort(B, days, t, denied) ==
    LET cutoff == t - days
        old == {b \in DOMAIN B : B[b].m < cutoff}
        keep == IF old \cap denied # {} THEN DOMAIN B ELSE DOMAIN B \ old
    IN  [b \in keep |-> B[b]]
\* A cleanup that also deletes the backups exactly at the cutoff.
CleanupStoreInclusive(B, days, t, denied) ==
    LET cutoff == t - days
        keep == {b \in DOMAIN B : ~(B[b].m <= cutoff) \/ b \in denied}
    IN  [b \in keep |-> B[b]]
\* denied: the backups whose unlink raises; the loop passes over them.
CleanupStore(B, days, t, denied) ==
    LET cutoff == t - days
        keep == {b \in DOMAIN B : ~(B[b].m < cutoff) \/ b \in denied}
    IN  [b \in keep |-> B[b]]

\* -------------------------------------------------------- RollbackManager
Destructive == {"modified", "deleted"}

\* A check that takes a recorded pointer for an existing backup.
RECURSIVE PointerOnly(_, _)
PointerOnly(rows, B) ==
    IF rows = <<>>
    THEN [ok |-> TRUE, reason |-> "Rollback is possible", file |-> Null]
    ELSE IF Head(rows).change_type \in Destructive
            /\ IsNull(Head(rows).backup_path)
    THEN [ok |-> FALSE, reason |-> "No backup available for",
          file |-> Some(Head(rows).file_path)]
    ELSE PointerOnly(Tail(rows), B)

\* The loop of can_rollback over the command's records: the first record
\* that needs a backup and has none decides.
RECURSIVE CheckBackups(_, _)
CheckBackups(rows, B) ==
    IF rows = <<>>
    THEN [ok |-> TRUE, reason |-> "Rollback is possible", file |-> Null]
    ELSE LET fc == Head(rows) IN
         IF fc.change_type \in Destructive /\ IsNull(fc.backup_path)
         THEN [ok |-> FALSE, reason |-> "No backup available for",
               file |-> Some(fc.file_path)]
         ELSE IF fc.change_type \in Destructive
                 /\ Val(fc.backup_path) \notin DOMAIN B
         THEN [ok |-> FALSE, reason |-> "Backup file missing for",
               file |-> Some(fc.file_path)]
         ELSE CheckBackups(Tail(rows), B)

can_rollback(FC, B, cid) ==
    IF get_file_changes(FC, cid) = <<>>
    THEN [ok |-> FALSE, reason |-> "No file changes recorded for this command",
          file |-> Null]
    ELSE CheckBackups(get_file_changes(FC, cid), B)

\* One pass of the loop of rollback_command over a record fc, on live files
\* F: the action it appends and the live files it leaves.  faults are the
\* paths on which unlink / copy2 raise (permission denied and the like).
Action(fc, action, status) ==
    [file |-> fc.file_path, type |-> fc.change_type, action |-> action,
     status |-> status]

\* An unlink with the existence test the wrong way round.
UnlinkInverted(F, p, faults) == ~Exists(F, p) /\ p \notin faults
UnlinkOk(F, p, faults) == Exists(F, p) /\ p \notin faults

RollbackAction(fc, F, B, dry_run, faults) ==
    IF fc.change_type = "created"
    THEN Action(fc, "delete",
                IF dry_run THEN "pending"
                ELSE IF UnlinkOk(F, fc.file_path, faults) THEN "success"
                ELSE "failed")
    ELSE IF fc.change_type \in Destructive
    THEN Action(fc, "restore",
                IF dry_run THEN "pending"
                ELSE IF RestoreResult(B, Val(fc.backup_path), fc.file_path,
                                      fc.file_path \in faults)
                THEN "success" ELSE "failed")
    ELSE Action(fc, "none", "pending")

\* A pass whose restore leaves a file other than the backup's bytes each
\* time it finds the destination already holding them.
RollbackFilesRestless(fc, F, B, dry_run, faults) ==
    IF dry_run THEN F
    ELSE IF fc.change_type = "created"
    THEN IF UnlinkOk(F, fc.file_path, faults)
         THEN [F EXCEPT ![fc.file_path] = Null] ELSE F
    ELSE IF fc.change_type \in Destructive
    THEN IF F[fc.file_path] = File(B[Val(fc.backup_path)].c)
            /\ fc.file_path \notin faults
         THEN [F EXCEPT ![fc.file_path] = Null]
         ELSE RestoreFiles(F, B, Val(fc.backup_path), fc.file_path,
                           fc.file_path \in faults)
    ELSE F
\* A pass that forgets the dry_run test.
RollbackFilesAlways(fc, F, B, dry_run, faults) ==
    IF fc.change_type = "created"
    THEN IF UnlinkOk(F, fc.file_path, faults)
         THEN [F EXCEPT ![fc.file_path] = Null] ELSE F
    ELSE IF fc.change_type \in Destructive
    THEN RestoreFiles(F, B, Val(fc.backup_path), fc.file_path,
                      fc.file_path \in faults)
    ELSE F

RollbackFiles(fc, F, B, dry_run, faults) ==
    IF dry_run THEN F
    ELSE IF fc.change_type = "created"
    THEN IF UnlinkOk(F, fc.file_path, faults)
         THEN [F EXCEPT ![fc.file_path] = Null] ELSE F
    ELSE IF fc.change_type \in Destructive
    THEN RestoreFiles(F, B, Val(fc.backup_path), fc.file_path,
                      fc.file_path \in faults)
    ELSE F

\* A loop that gives up at the first failed action.
RECURSIVE RollbackLoopAbort(_, _, _, _, _, _)
RollbackLoopAbort(rows, F, B, dry_run, faults, actions) ==
    IF rows = <<>> THEN [fs |-> F, actions |-> actions]
    ELSE IF RollbackAction(Head(rows), F, B, dry_run, faults).status = "failed"
    THEN [fs |-> F,
          actions |-> Append(actions,
                             RollbackAction(Head(rows), F, B, dry_run, faults))]
    ELSE RollbackLoopAbort(Tail(rows),
                           RollbackFiles(Head(rows), F, B, dry_run, faults), B,
                           dry_run, faults,
                           Append(actions,
                                  RollbackAction(Head(rows), F, B, dry_run,
                                                 faults)))

RECURSIVE RollbackLoop(_, _, _, _, _, _)
RollbackLoop(rows, F, B, dry_run, faults, actions) ==
    IF rows = <<>> THEN [fs |-> F, actions |-> actions]
    ELSE RollbackLoop(Tail(rows),
                      RollbackFiles(Head(rows), F, B, dry_run, faults), B,
                      dry_run, faults,
                      Append(actions,
                             RollbackAction(Head(rows), F, B, dry_run, faults)))

AllNotFailed(actions) == \A i \in 1..Len(actions) : actions[i].status # "failed"

\* A rollback that verifies each record only when it comes to it: the
\* records before the first one without a backup are already undone when it
\* refuses.
RECURSIVE EligiblePrefix(_, _)
EligiblePrefix(rows, B) ==
    IF rows = <<>> \/ ~CheckBackups(<<Head(rows)>>, B).ok THEN <<>>
    ELSE <<Head(rows)>> \o EligiblePrefix(Tail(rows), B)
RollbackLazyVerify(FC, F, B, cid, dry_run, faults) ==
    LET can == can_rollback(FC, B, cid) IN
    IF ~can.ok
    THEN [fs |-> RollbackLoop(EligiblePrefix(get_file_changes(FC, cid), B), F,
                              B, dry_run, faults, <<>>).fs,
          success |-> FALSE, error |-> can.reason, actions |-> <<>>]
    ELSE LET out == RollbackLoop(get_file_changes(FC, cid), F, B, dry_run,
                                 faults, <<>>)
         IN  [fs |-> out.fs, success |-> AllNotFailed(out.actions),
              error |-> "", actions |-> out.actions]

\* rollback_command: its result and the live files after it.
rollback_command(FC, F, B, cid, dry_run, faults) ==
    LET can == can_rollback(FC, B, cid) IN
    IF ~can.ok
    THEN [fs |-> F, success |-> FALSE, error |-> can.reason, actions |-> <<>>]
    ELSE LET out == RollbackLoop(get_file_changes(FC, cid), F, B, dry_run,
                                 faults, <<>>)
         IN  [fs |-> out.fs, success |-> AllNotFailed(out.actions),
              error |-> "", actions |-> out.actions]

\* get_commands(limit=20) of rollback_last: the ids of the commands in an
\* order the query may return them in (ORDER BY timestamp DESC; rows with
\* equal timestamps come in any order), cut to the limit.
RollbackWindow == 20
\* The orders of the commands S by timestamp, latest first.
RECURSIVE DescOrders(_, _)
DescOrders(C, S) ==
    IF S = {} THEN {<<>>}
    ELSE LET top == {i \in S : \A j \in S : C[i].timestamp >= C[j].timestamp}
         IN  UNION {{<<i>> \o q : q \in DescOrders(C, S \ {i})} : i \in top}
\* The same query without its LIMIT.
RecentOrdersUnbounded(C) == DescOrders(C, 1..Len(C))
RecentOrders(C) ==
    {SubSeq(q, 1, IF Len(C) < RollbackWindow THEN Len(C) ELSE RollbackWindow) :
        q \in DescOrders(C, 1..Len(C))}

\* The loop of rollback_last over an order: the first command with records.
RECURSIVE FirstWithChanges(_, _)
FirstWithChanges(FC, ids) ==
    IF ids = <<>> THEN Null
    ELSE IF get_file_changes(FC, Head(ids)) # <<>> THEN Some(Head(ids))
    ELSE FirstWithChanges(FC, Tail(ids))

rollback_last(FC, F, B, ids, dry_run, faults) ==
    IF IsNull(FirstWithChanges(FC, ids))
    THEN [fs |-> F, success |-> FALSE,
          error |-> "No recent commands with file changes found",
          actions |-> <<>>]
    ELSE rollback_command(FC, F, B, Val(FirstWithChanges(FC, ids)), dry_run,
                          faults)

\* ---------------------------------------------------------------- queries
\* The words of a stored text; NULL output is indexed as the empty string.
Words(text) == IF IsNull(text) THEN {} ELSE {Val(text)[k] : k \in DOMAIN Val(text)}
\* commands_fts MATCH ? for a one-word query: the word occurs in the indexed
\* command or in the indexed output.
Match(search, row) == search \in Words(Some(row.command)) \cup Words(row.output)

\* The same selection with the range filters applied in search mode as well.
MatchingSearchRanged(C, X, session_id, since, with_errors, search) ==
    {i \in 1..Len(C) :
        /\ IsNull(session_id) \/ C[i].session_id = Val(session_id)
        /\ IsNull(since) \/ C[i].timestamp >= Val(since)
        /\ with_errors => SqlNeZero(C[i].exit_code) = 1
        /\ IsNull(search) \/ (i \in X /\ Match(Val(search), C[i]))}
\* The same selection with an exclusive lower bound.
MatchingExclusive(C, X, session_id, since, with_errors, search) ==
    {i \in 1..Len(C) :
        /\ IsNull(session_id) \/ C[i].session_id = Val(session_id)
        /\ IF IsNull(search)
           THEN /\ IsNull(since) \/ C[i].timestamp > Val(since)
                /\ with_errors => SqlNeZero(C[i].exit_code) = 1
           ELSE i \in X /\ Match(Val(search), C[i])}
\* The WHERE clause get_commands builds: the search text replaces the query,
\* keeping only the session filter.
Matching(C, X, session_id, since, with_errors, search) ==
    {i \in 1..Len(C) :
        /\ IsNull(session_id) \/ C[i].session_id = Val(session_id)
        /\ IF IsNull(search)
           THEN /\ IsNull(since) \/ C[i].timestamp >= Val(since)
                /\ with_errors => SqlNeZero(C[i].exit_code) = 1
           ELSE i \in X /\ Match(Val(search), C[i])}

Min(a, b) == IF a <= b THEN a ELSE b
\* ORDER BY timestamp DESC LIMIT ?: the ids of the rows, in the orders the
\* engine may return them (rows of equal timestamp in any order).
get_commands(C, X, session_id, limit, since, with_errors, search) ==
    {SubSeq(q, 1, Min(limit, Len(q))) :
        q \in DescOrders(C, Matching(C, X, session_id, since, with_errors, search))}

\* SELECT * FROM commands WHERE id = ?
\* dict(row): the columns of a command row, its id among them.
Row(C, i) == [id |-> i, row |-> C[i]]
\* SELECT * FROM commands WHERE id = ?
get_command_by_id(C, command_id) ==
    IF command_id \in 1..Len(C) THEN Some(Row(C, command_id)) ELSE Null
\* The oldest command instead of the newest.
FirstCommand(C) == IF Len(C) > 0 THEN Some(Row(C, 1)) ELSE Null
\* SELECT * FROM commands ORDER BY id DESC LIMIT 1
get_last_command(C) == IF Len(C) > 0 THEN Some(Row(C, Len(C))) ELSE Null

\* round(successful / total * 100, 1) in tenths of a percent; the quotient is
\* never a tie of the rounding for the totals reached here.
SuccessRate(successful, total) ==
    IF total > 0 THEN (2000 * successful + total) \div (2 * total) ELSE 0
\* SELECT COUNT(*) FROM commands WHERE exit_code = 0 / WHERE exit_code != 0
CountSuccess(C) == Cardinality({i \in 1..Len(C) : SqlEqZero(C[i].exit_code) = 1})
CountFailed(C) == Cardinality({i \in 1..Len(C) : SqlNeZero(C[i].exit_code) = 1})
\* Every command without exit code 0 counted as failed.
StatsNullFailed(C, S, FC) ==
    [total_commands |-> Len(C),
     successful_commands |-> CountSuccess(C),
     failed_commands |-> Len(C) - CountSuccess(C),
     success_rate |-> SuccessRate(CountSuccess(C), Len(C)),
     total_sessions |-> Cardinality(DOMAIN S),
     total_file_changes |-> Len(FC)]
get_stats(C, S, FC) ==
    [total_commands |-> Len(C),
     successful_commands |-> CountSuccess(C),
     failed_commands |-> CountFailed(C),
     success_rate |-> SuccessRate(CountSuccess(C), Len(C)),
     total_sessions |-> Cardinality(DOMAIN S),
     total_file_changes |-> Len(FC)]

\* -------------------------------------------------------- CommandRecorder
\* name.replace(' ', '_')[:20]
Sanitize(name) == IF name = "a b" THEN "a_b" ELSE name
\* strftime("%Y%m%d_%H%M%S") of the clock reading, then "_" and the name.
SessionIdAt(t, name) ==
    [t |-> t, n |-> IF IsNull(name) THEN "" ELSE Sanitize(Val(name))]

\* "if not self.current_session_id: self.start_session()": the session the
\* call runs under, and the sessions table after that step.
AutoSessionId(cur, t) == IF IsNull(cur) THEN SessionIdAt(t, Null) ELSE Val(cur)
\* A recorder that takes a session id without starting the session.
AutoSessionsSkip(S, cur, t) == S
AutoSessions(S, cur, t) ==
    IF IsNull(cur)
    THEN InsertOrReplaceSession(S, SessionIdAt(t, Null), Null, Null, t)
    ELSE S

\* The loop of record over the detected changes, from index i on: each
\* modified / deleted file is backed up as it is now (files F, after the
\* command), then the change is recorded.  The clock reads t at the first
\* backup and t + step at each following one; bfaults are the paths whose
\* copy fails; mtime is the modification time of the files copied.
RECURSIVE RecordChanges(_, _, _, _, _, _, _, _, _, _)
RecordChanges(changes, i, F, B, FC, cid, t, step, bfaults, mtime) ==
    IF i > Len(changes) THEN [backups |-> B, file_changes |-> FC, now |-> t]
    ELSE LET ch == changes[i]
             needs == ch.type \in Destructive
             bp == IF needs
                   THEN BackupResult(F, ch.path, cid, t, ch.path \in bfaults)
                   ELSE Null
             B1 == IF needs
                   THEN BackupStore(F, B, ch.path, cid, t, ch.path \in bfaults,
                                    mtime)
                   ELSE B
         IN  RecordChanges(changes, i + 1, F, B1,
                 InsertFileChange(FC, cid, ch.path, ch.type, ch.old_hash,
                                  ch.new_hash, bp),
                 cid, IF needs /\ i < Len(changes) THEN t + step ELSE t,
                 step, bfaults, mtime)

\* What a shell command may do to the live files while it runs at clock t.
Effects == [Paths -> {Null} \cup {File(c) : c \in Contents}]

PathOrders == {q \in [1..Cardinality(Paths) -> Paths] :
                 \A i, j \in DOMAIN q : i # j => q[i] # q[j]}

\* ------------------------------------------------------------------ state
\* Calls are synchronous and one at a time: a call leaves its result in
\* last, and the caller takes it (Return) before the next call starts.
NoCall == [op |-> "none"]
Idle == last = NoCall

Init ==
    /\ now = 0
    /\ sessions = <<>>
    /\ commands = <<>>
    /\ commands_fts = {}
    /\ file_changes = <<>>
    /\ fs \in [Paths -> {Null, File("v1")}]
    /\ backups = <<>>
    /\ watched = <<>>
    /\ baseline = <<>>
    /\ current_session_id = Null
    /\ recorded = <<>>
    /\ last = NoCall

ledger == <<sessions, commands, commands_fts, file_changes, recorded>>
tracker == <<watched, baseline>>

\* History kept beside the tables.
TallyAfterStart(N, id) == (id :> [n |-> 0, nulls |-> 0]) @@ N
TallyAfterRecord(N, id, exit) ==
    [s \in DOMAIN N |->
        IF s = id
        THEN [n |-> N[s].n + 1,
              nulls |-> N[s].nulls + (IF IsNull(exit) THEN 1 ELSE 0)]
        ELSE N[s]]
BytesRead(F, keys) == [key \in keys |-> F[KeyPath(key)]]
RowBefore(S, id) == IF id \in DOMAIN S THEN Some(S[id]) ELSE Null
RoomForBackup(B, loc) == loc \in DOMAIN B \/ Cardinality(DOMAIN B) < MaxBackups
RoomForSession(S, id) == id \in DOMAIN S \/ Cardinality(DOMAIN S) < MaxSessions

Return ==
    /\ ~Idle
    /\ last' = NoCall
    /\ UNCHANGED <<now, ledger, fs, backups, tracker, current_session_id>>

\* ------------------------------------------------------------ environment
Tick ==
    /\ Idle
    /\ now < MaxClock
    /\ now' = now + 1
    /\ UNCHANGED <<ledger, fs, backups, tracker, current_session_id, last>>

\* Someone outside the program writes or removes a live file.
WriteFile(p, c) ==
    /\ Idle
    /\ fs' = [fs EXCEPT ![p] = File(c)]
    /\ UNCHANGED <<now, ledger, backups, tracker, current_session_id, last>>

RemoveFile(p) ==
    /\ Idle
    /\ Exists(fs, p)
    /\ fs' = [fs EXCEPT ![p] = Null]
    /\ UNCHANGED <<now, ledger, backups, tracker, current_session_id, last>>

\* -------------------------------------------------------- TerminalRewindDB
DbStartSession(id, name, description) ==
    /\ Idle
    /\ RoomForSession(sessions, id)
    /\ sessions' = InsertOrReplaceSession(sessions, id, name, description, now)
    /\ recorded' = TallyAfterStart(recorded, id)
    /\ last' = [op |-> "start_session", sid |-> id, ret |-> id,
                before |-> RowBefore(sessions, id), name |-> name,
                description |-> description, at |-> now]
    /\ UNCHANGED <<now, commands, commands_fts, file_changes, fs, backups, tracker,
                   current_session_id>>

DbEndSession(id) ==
    /\ Idle
    /\ sessions' = UpdateSessionEnd(sessions, id, now)
    /\ last' = [op |-> "end_session", sid |-> id]
    /\ UNCHANGED <<now, commands, commands_fts, file_changes, recorded, fs, backups,
                   tracker, current_session_id>>

DbRecordCommand(sid, exit, command, output) ==
    /\ Idle
    /\ Len(commands) < MaxCommands
    /\ commands' = InsertCommand(commands, sid, now, exit, command, output, Null)
    /\ commands_fts' = InsertFts(commands_fts, Len(commands) + 1)
    /\ sessions' = UpdateSessionStats(sessions, sid, exit)
    /\ recorded' = TallyAfterRecord(recorded, sid, exit)
    /\ last' = [op |-> "record_command", sid |-> sid, exit |-> exit,
                ret |-> Len(commands) + 1, before |-> RowBefore(sessions, sid)]
    /\ UNCHANGED <<now, file_changes, fs, backups, tracker, current_session_id>>

\* record_command raising partway: after the command row is inserted, the
\* INSERT into commands_fts (stage "fts") or the UPDATE of sessions (stage
\* "update") raises.  Nothing catches it and nothing rolls back, so the
\* statements already executed stay in the connection's open transaction,
\* visible to every later call on the connection and made durable by the
\* next call that commits.
RecordStages == {"fts", "update"}
DbRecordCommandRaises(sid, exit, stage) ==
    /\ Idle
    /\ Len(commands) < MaxCommands
    /\ commands' = InsertCommand(commands, sid, now, exit, Plain, Null, Null)
    /\ commands_fts' = IF stage = "fts" THEN commands_fts
                       ELSE InsertFts(commands_fts, Len(commands) + 1)
    /\ recorded' = TallyAfterRecord(recorded, sid, exit)
    /\ last' = [op |-> "record_command_raised", sid |-> sid, stage |-> stage]
    /\ UNCHANGED <<now, sessions, file_changes, fs, backups, tracker,
                   current_session_id>>

DbRecordFileChange(cid, path, kind, old_hash, new_hash, backup_path) ==
    /\ Idle
    /\ Len(file_changes) < MaxChanges
    /\ file_changes' = InsertFileChange(file_changes, cid, path, kind, old_hash,
                                        new_hash, backup_path)
    /\ last' = [op |-> "record_file_change", cmd |-> cid]
    /\ UNCHANGED <<now, sessions, commands, commands_fts, recorded, fs, backups, tracker,
                   current_session_id>>

GetCommands(session_id, limit, since, with_errors, search) ==
    /\ Idle
    /\ \E ret \in get_commands(commands, commands_fts, session_id, limit, since,
                               with_errors, search) :
        last' = [op |-> "get_commands", session_id |-> session_id,
                 limit |-> limit, since |-> since, with_errors |-> with_errors,
                 search |-> search, ret |-> ret]
    /\ UNCHANGED <<now, ledger, fs, backups, tracker, current_session_id>>

GetCommandById(command_id) ==
    /\ Idle
    /\ last' = [op |-> "get_command_by_id", cmd |-> command_id,
                ret |-> get_command_by_id(commands, command_id)]
    /\ UNCHANGED <<now, ledger, fs, backups, tracker, current_session_id>>

GetLastCommand ==
    /\ Idle
    /\ last' = [op |-> "get_last_command", ret |-> get_last_command(commands)]
    /\ UNCHANGED <<now, ledger, fs, backups, tracker, current_session_id>>

GetStats ==
    /\ Idle
    /\ last' = [op |-> "get_stats",
                ret |-> get_stats(commands, sessions, file_changes)]
    /\ UNCHANGED <<now, ledger, fs, backups, tracker, current_session_id>>

\* ------------------------------------------------------------- FileTracker
BackupFile(p, cid, fault, mtime) ==
    /\ Idle
    /\ RoomForBackup(backups, BackupName(p, cid, now))
    /\ backups' = BackupStore(fs, backups, p, cid, now, fault, mtime)
    /\ last' = [op |-> "backup_file", path |-> p,
                ret |-> BackupResult(fs, p, cid, now, fault)]
    /\ UNCHANGED <<now, ledger, fs, tracker, current_session_id>>

RestoreFile(loc, p, fault) ==
    /\ Idle
    /\ fs' = RestoreFiles(fs, backups, loc, p, fault)
    /\ last' = [op |-> "restore_file", loc |-> loc, path |-> p, fault |-> fault,
                ret |-> RestoreResult(backups, loc, p, fault), before |-> fs[p]]
    /\ UNCHANGED <<now, ledger, backups, tracker, current_session_id>>

\* A cleanup that revokes the pointers to the backups it deletes.
CleanupRevoking(days, denied) ==
    /\ Idle
    /\ backups' = CleanupStore(backups, days, now, denied)
    /\ file_changes' =
        [i \in DOMAIN file_changes |->
            IF /\ ~IsNull(file_changes[i].backup_path)
               /\ Val(file_changes[i].backup_path) \notin DOMAIN backups'
            THEN [file_changes[i] EXCEPT !.backup_path = Null]
            ELSE file_changes[i]]
    /\ last' = [op |-> "cleanup_old_backups", backups_before |-> backups,
                days |-> days, denied |-> denied]
    /\ UNCHANGED <<now, sessions, commands, commands_fts, recorded, fs, tracker,
                   current_session_id>>

CleanupOldBackups(days, denied) ==
    /\ Idle
    /\ backups' = CleanupStore(backups, days, now, denied)
    /\ last' = [op |-> "cleanup_old_backups", backups_before |-> backups,
                days |-> days, denied |-> denied]
    /\ UNCHANGED <<now, ledger, fs, tracker, current_session_id>>

\* A watch_files without the clear(): the earlier baseline stays beside
\* the new entries.
WatchFilesKeeping(files) ==
    /\ Idle
    /\ watched' = watch_files(fs, files) @@ watched
    /\ baseline' = BytesRead(fs, DOMAIN watch_files(fs, files)) @@ baseline
    /\ last' = [op |-> "watch_files", files |-> files, before |-> watched]
    /\ UNCHANGED <<now, ledger, fs, backups, current_session_id>>

\* watch_files(file_paths), watch_directory(directory) and
\* detect_changes(directory) called on the tracker directly.
WatchFiles(files) ==
    /\ Idle
    /\ watched' = watch_files(fs, files)
    /\ baseline' = BytesRead(fs, DOMAIN watch_files(fs, files))
    /\ last' = [op |-> "watch_files", files |-> files, before |-> watched]
    /\ UNCHANGED <<now, ledger, fs, backups, current_session_id>>

WatchDirectory ==
    /\ Idle
    /\ watched' = watch_directory(fs)
    /\ baseline' = BytesRead(fs, DOMAIN watch_directory(fs))
    /\ last' = [op |-> "watch_directory", before |-> watched]
    /\ UNCHANGED <<now, ledger, fs, backups, current_session_id>>

GetFileHash(p, io, strict) ==
    /\ Idle
    /\ last' = [op |-> "get_file_hash", path |-> p, io |-> io,
                raised |-> FileHash(fs, p, io, strict).raised,
                ret |-> FileHash(fs, p, io, strict).ret]
    /\ UNCHANGED <<now, ledger, fs, backups, tracker, current_session_id>>

SnapshotDirectory(root, io, strict) ==
    /\ Idle
    /\ last' = [op |-> "snapshot_directory", root |-> root, io |-> io,
                raised |-> SnapshotRaises(root, strict),
                ret |-> IF SnapshotRaises(root, strict) THEN <<>>
                        ELSE Snapshot(fs, root, io)]
    /\ UNCHANGED <<now, ledger, fs, backups, tracker, current_session_id>>

\* watch_files on a list of files some of which cannot be reached.
WatchFilesDenied(files, io, strict) ==
    /\ Idle
    /\ watched' = WatchedBefore(fs, files, io, strict)
    /\ baseline' = BytesRead(fs, DOMAIN watched')
    /\ last' = [op |-> "watch_files", files |-> files, io |-> io,
                raised |-> FirstRaising(files, io, strict) # 0]
    /\ UNCHANGED <<now, ledger, fs, backups, current_session_id>>

\* watch_directory on a directory that may not be reachable.
WatchDirectoryDenied(root, io, strict) ==
    /\ Idle
    /\ watched' = IF SnapshotRaises(root, strict) THEN watched
                  ELSE Snapshot(fs, root, io)
    /\ baseline' = BytesRead(fs, DOMAIN watched')
    /\ last' = [op |-> "watch_directory", root |-> root, io |-> io,
                raised |-> SnapshotRaises(root, strict)]
    /\ UNCHANGED <<now, ledger, fs, backups, current_session_id>>

\* detect_changes() over watched files some of which cannot be reached now.
DetectChangesDenied(ord, io, strict) ==
    LET raised == \E key \in DOMAIN watched : HashRaises(io, strict, KeyPath(key))
    IN  /\ Idle
        /\ last' = [op |-> "detect_changes", directory |-> FALSE, io |-> io,
                    raised |-> raised,
                    ret |-> IF raised THEN <<>>
                            ELSE DetectFiles(watched, Readable(fs, io), ord)]
        /\ UNCHANGED <<now, ledger, fs, backups, tracker, current_session_id>>

\* A detection that takes what it sees as the new baseline.
DetectChangesRebase(directory, ord) ==
    /\ Idle
    /\ last' = [op |-> "detect_changes", directory |-> directory,
                ret |-> detect_changes(watched, fs, directory, ord)]
    /\ watched' = IF directory THEN watch_directory(fs)
                  ELSE watch_files(fs, {KeyPath(key) : key \in DOMAIN watched})
    /\ baseline' = BytesRead(fs, DOMAIN watched')
    /\ UNCHANGED <<now, ledger, fs, backups, current_session_id>>

DetectChanges(directory, ord) ==
    /\ Idle
    /\ last' = [op |-> "detect_changes", directory |-> directory,
                ret |-> detect_changes(watched, fs, directory, ord)]
    /\ UNCHANGED <<now, ledger, fs, backups, tracker, current_session_id>>

\* --------------------------------------------------------- CommandRecorder
RecStartSession(name) ==
    /\ Idle
    /\ RoomForSession(sessions, SessionIdAt(now, name))
    /\ sessions' = InsertOrReplaceSession(sessions, SessionIdAt(now, name),
                                          name, Null, now)
    /\ recorded' = TallyAfterStart(recorded, SessionIdAt(now, name))
    /\ current_session_id' = Some(SessionIdAt(now, name))
    /\ last' = [op |-> "start_session", sid |-> SessionIdAt(now, name),
                ret |-> SessionIdAt(now, name),
                before |-> RowBefore(sessions, SessionIdAt(now, name)),
                name |-> name, description |-> Null, at |-> now]
    /\ UNCHANGED <<now, commands, commands_fts, file_changes, fs, backups, tracker>>

RecEndSession ==
    /\ Idle
    /\ sessions' = IF IsNull(current_session_id) THEN sessions
                   ELSE UpdateSessionEnd(sessions, Val(current_session_id), now)
    /\ current_session_id' = Null
    /\ last' = [op |-> "recorder_end_session", sid |-> current_session_id]
    /\ UNCHANGED <<now, commands, commands_fts, file_changes, recorded, fs, backups,
                   tracker>>

RecLog(exit) ==
    LET sid == AutoSessionId(current_session_id, now)
        S1 == AutoSessions(sessions, current_session_id, now)
        N1 == IF IsNull(current_session_id)
              THEN TallyAfterStart(recorded, sid) ELSE recorded
    IN  /\ Idle
        /\ Len(commands) < MaxCommands
        /\ RoomForSession(sessions, sid)
        /\ current_session_id' = Some(sid)
        /\ commands' = InsertCommand(commands, sid, now, exit, Plain, Null, Null)
        /\ commands_fts' = InsertFts(commands_fts, Len(commands) + 1)
        /\ sessions' = UpdateSessionStats(S1, sid, exit)
        /\ recorded' = TallyAfterRecord(N1, sid, exit)
        /\ last' = [op |-> "log", sid |-> sid, exit |-> exit,
                    ret |-> Len(commands) + 1, before |-> RowBefore(S1, sid)]
        /\ UNCHANGED <<now, file_changes, fs, backups, tracker>>

\* subprocess.run(command, shell=True, capture_output=True, timeout=300)
\* returns with a return code and the text captured from stderr (a negative
\* code when a signal ended the shell), or raises TimeoutExpired, or raises
\* another exception, whose str() is text.
Returned(code, stderr) == [kind |-> "returned", code |-> code, text |-> stderr]
TimeoutExpired == [kind |-> "timeout", code |-> 0, text |-> ""]
Raised(text) == [kind |-> "raised", code |-> 0, text |-> text]
NotRun == [kind |-> "none", code |-> 0, text |-> ""]

\* An executed command whose failure to run leaves no exit code behind.
ExecutedUnknown(run) ==
    IF run.kind = "returned"
    THEN [exit_code |-> Some(run.code),
          error_output |-> IF run.text = "" THEN Null ELSE Some(run.text)]
    ELSE IF run.kind = "timeout"
    THEN [exit_code |-> Null,
          error_output |-> Some("Command timed out after 5 minutes")]
    ELSE [exit_code |-> Null, error_output |-> Some(run.text)]
\* The exit code and error text record() takes from the run.
Executed(run) ==
    IF run.kind = "returned"
    THEN [exit_code |-> Some(run.code),
          error_output |-> IF run.text = "" THEN Null ELSE Some(run.text)]
    ELSE IF run.kind = "timeout"
    THEN [exit_code |-> Some(-1),
          error_output |-> Some("Command timed out after 5 minutes")]
    ELSE [exit_code |-> Some(-1), error_output |-> Some(run.text)]

\* record(command, track_files, track_cwd, execute).  effect: the live files
\* the executed command leaves; run: what subprocess.run does;
\* ord: dict iteration order; step, bfaults, mtime: see RecordChanges.
Record(track_files, track_cwd, execute, effect, run, ord, step, bfaults, mtime) ==
    LET sid == AutoSessionId(current_session_id, now)
        S1 == AutoSessions(sessions, current_session_id, now)
        N1 == IF IsNull(current_session_id)
              THEN TallyAfterStart(recorded, sid) ELSE recorded
        W1 == IF track_files # {} THEN watch_files(fs, track_files)
              ELSE IF track_cwd THEN watch_directory(fs)
              ELSE watched
        F1 == IF execute THEN effect ELSE fs
        ran == IF execute THEN Executed(run)
               ELSE [exit_code |-> Null, error_output |-> Null]
        exit_code == ran.exit_code
        cid == Len(commands) + 1
    IN  /\ Idle
        /\ Len(commands) < MaxCommands
        /\ RoomForSession(sessions, sid)
        /\ \E changes \in {IF track_files # {} \/ track_cwd
                           THEN detect_changes(W1, F1, track_cwd, ord)
                           ELSE <<>>} :
            /\ Len(file_changes) + Len(changes) <= MaxChanges
            /\ \E out \in {RecordChanges(changes, 1, F1, backups,
                                         file_changes, cid, now, step,
                                         bfaults, mtime)} :
                /\ Cardinality(DOMAIN out.backups) <= MaxBackups
                /\ out.now <= MaxClock
                /\ backups' = out.backups
                /\ file_changes' = out.file_changes
                /\ now' = out.now
        /\ current_session_id' = Some(sid)
        /\ watched' = W1
        /\ baseline' = IF track_files # {} \/ track_cwd
                       THEN BytesRead(fs, DOMAIN W1) ELSE baseline
        /\ fs' = F1
        /\ commands' = InsertCommand(commands, sid, now, ran.exit_code, Plain, Null,
                                   ran.error_output)
        /\ commands_fts' = InsertFts(commands_fts, Len(commands) + 1)
        /\ sessions' = UpdateSessionStats(S1, sid, exit_code)
        /\ recorded' = TallyAfterRecord(N1, sid, exit_code)
        /\ last' = [op |-> "record", sid |-> sid, exit |-> exit_code,
                    ret |-> cid, before |-> RowBefore(S1, sid),
                    fs_before |-> fs, bfaults |-> bfaults,
                    execute |-> execute, run |-> run]

\* --------------------------------------------------------- RollbackManager
CanRollback(cid) ==
    /\ Idle
    /\ last' = [op |-> "can_rollback", cmd |-> cid,
                ret |-> can_rollback(file_changes, backups, cid)]
    /\ UNCHANGED <<now, ledger, fs, backups, tracker, current_session_id>>

Result(out) ==
    [success |-> out.success, error |-> out.error, actions |-> out.actions]

\* A rollback that strikes the records it has undone from the ledger.
RollbackCommandConsuming(cid, dry_run, faults) ==
    LET out == rollback_command(file_changes, fs, backups, cid, dry_run, faults)
    IN  /\ Idle
        /\ fs' = out.fs
        /\ file_changes' = IF out.success /\ ~dry_run
                           THEN SelectSeq(file_changes, LAMBDA r : r.command_id # cid)
                           ELSE file_changes
        /\ last' = [op |-> "rollback_command", cmd |-> Some(cid),
                    dry_run |-> dry_run, faults |-> faults,
                    ret |-> Result(out), fs_before |-> fs,
                    backups_before |-> backups]
        /\ UNCHANGED <<now, sessions, commands, commands_fts, recorded, backups,
                       tracker, current_session_id>>

RollbackCommand(cid, dry_run, faults) ==
    LET out == rollback_command(file_changes, fs, backups, cid, dry_run, faults)
    IN  /\ Idle
        /\ fs' = out.fs
        /\ last' = [op |-> "rollback_command", cmd |-> Some(cid),
                    dry_run |-> dry_run, faults |-> faults,
                    ret |-> Result(out), fs_before |-> fs,
                    backups_before |-> backups]
        /\ UNCHANGED <<now, ledger, backups, tracker, current_session_id>>

RollbackLast(ids, dry_run, faults) ==
    LET out == rollback_last(file_changes, fs, backups, ids, dry_run, faults)
    IN  /\ Idle
        /\ fs' = out.fs
        /\ last' = [op |-> "rollback_last",
                    cmd |-> FirstWithChanges(file_changes, ids),
                    dry_run |-> dry_run, faults |-> faults,
                    ret |-> Result(out), fs_before |-> fs,
                    backups_before |-> backups]
        /\ UNCHANGED <<now, ledger, backups, tracker, current_session_id>>

\* ------------------------------------------------------------------ inputs
CommandIds == 1..MaxCommands
DbIds == {AdHocId, SessionIdAt(0, Null)}
RunOutcomes ==
    {Returned(0, ""), Returned(1, "err"), Returned(-1, ""), TimeoutExpired,
     Raised("[Errno 2] No such file or directory")}
\* change_type is free text; the tracker produces three values.
TrackerTypes == {"created", "modified", "deleted"}
ChangeTypes == TrackerTypes \cup {"renamed"}
MaxAges == {0, 1}
\* Modification times of live files: before the clock started (-1) or since.
Mtimes == (-1)..now
\* The paths on which a delete or an overwrite may be denied.
Protected == SUBSET {"f"}
\* The command recorded last: the one a caller attaches backups and file
\* changes to.
Latest == {Len(commands)} \ {0}
\* The backup pointer a caller records with a change: for a modified or
\* deleted file none or a backup it made, otherwise none.
Pointers(kind) ==
    IF kind \in Destructive
    THEN {Null} \cup {Some(b) : b \in DOMAIN backups} ELSE {Null}
\* The old_hash a caller records with a backup pointer: the digest of what
\* it backed up.
OldHashFor(backup_path) ==
    IF ~IsNull(backup_path) /\ Val(backup_path) \in DOMAIN backups
    THEN Some(Md5(backups[Val(backup_path)].c)) ELSE Null

\* What a caller records: a command line with the stdout captured for it.
Recordings ==
    {[command |-> <<"build", "project">>, output |-> Null],
     [command |-> <<"test", "project">>, output |-> Null],
     [command |-> Plain, output |-> Some(<<"build", "ok">>)]}
SearchWords == {"build", "project"}
Limits == {1, MaxCommands}
\* A lower bound the clock reaches, so that commands fall on both sides of it
\* and on it.
SinceBounds == {1}
Option(S) == {Null} \cup {Some(v) : v \in S}

\* The rollback engine with the ledger and backup calls that feed it.
NextRollback ==
    \/ Return
    \/ \E p \in Paths, c \in Contents : WriteFile(p, c)
    \/ \E p \in Paths : RemoveFile(p)
    \/ DbRecordCommand(AdHocId, Null, Plain, Null)
    \/ \E cid \in Latest, p \in Paths, kind \in TrackerTypes :
       \E backup_path \in Pointers(kind) :
            DbRecordFileChange(cid, p, kind, OldHashFor(backup_path), Null,
                               backup_path)
    \/ \E p \in Paths, cid \in Latest, fault \in BOOLEAN, mtime \in Mtimes :
            BackupFile(p, cid, fault, mtime)
    \/ \E days \in MaxAges : CleanupOldBackups(days, {})
    \/ \E cid \in CommandIds : CanRollback(cid)
    \/ \E cid \in CommandIds, dry_run \in BOOLEAN, faults \in Protected :
            RollbackCommand(cid, dry_run, faults)
    \/ \E ids \in RecentOrders(commands), dry_run \in BOOLEAN,
          faults \in Protected : RollbackLast(ids, dry_run, faults)

SpecRollback == Init /\ [][NextRollback]_vars

\* The ledger's sessions and commands, called directly and through the
\* recorder.
NextLedger ==
    \/ Return
    \/ \E id \in DbIds, name \in SessionNames :
            DbStartSession(id, name, Null)
    \/ \E id \in DbIds : DbEndSession(id)
    \/ \E id \in DbIds, exit \in ExitCodes :
            DbRecordCommand(id, exit, Plain, Null)
    \/ \E name \in SessionNames : RecStartSession(name)
    \/ RecEndSession
    \/ \E exit \in ExitCodes : RecLog(exit)

InitLedger == Init /\ fs = [p \in Paths |-> Null]
SpecLedger == InitLedger /\ [][NextLedger]_vars

\* The life of session rows: started, restarted, ended, with the calls that
\* must leave them alone.
NextSessions ==
    \/ Return
    \/ Tick
    \/ \E id \in DbIds, given \in {<<Null, Null>>, <<Some("a b"), Some("d")>>} :
            DbStartSession(id, given[1], given[2])
    \/ \E id \in DbIds : DbEndSession(id)
    \/ \E id \in DbIds : DbRecordCommand(id, Some(0), Plain, Null)
    \/ \E cid \in Latest : DbRecordFileChange(cid, "f", "created", Null, Null, Null)
    \/ CleanupOldBackups(0, {})
    \/ \E cid \in Latest : RollbackCommand(cid, FALSE, {})

InitSessions == Init /\ fs = [p \in Paths |-> IF p = "f" THEN File("v1") ELSE Null]
SpecSessions == InitSessions /\ [][NextSessions]_vars

\* rollback_last on a ledger that already holds a history of commands, the
\* two latest with the same timestamp: as many as the window of rollback_last
\* takes, or one more.
History(n) ==
    [i \in 1..n |-> [session_id |-> AdHocId,
                     timestamp |-> IF i = n THEN -1 ELSE i - n,
                     exit_code |-> Null, command |-> Plain, output |-> Null,
                     error_output |-> Null]]
InitWindow ==
    /\ now = 0
    /\ sessions = <<>>
    /\ commands \in {History(RollbackWindow), History(RollbackWindow + 1)}
    /\ commands_fts = 1..Len(commands)
    /\ file_changes = <<>>
    /\ fs \in [Paths -> {Null, File("v1")}]
    /\ backups = <<>>
    /\ watched = <<>>
    /\ baseline = <<>>
    /\ current_session_id = Null
    /\ recorded = <<>>
    /\ last = NoCall

NextWindow ==
    \/ Return
    \/ \E cid \in {1, 2, Len(commands) - 1, Len(commands)},
          kind \in {"created", "modified"} :
            DbRecordFileChange(cid, "f", kind, Null, Null, Null)
    \/ \E ids \in RecentOrders(commands), dry_run \in BOOLEAN :
            RollbackLast(ids, dry_run, {})

SpecWindow == InitWindow /\ [][NextWindow]_vars

\* The tracker called directly while the live files change.
NextTracker ==
    \/ Return
    \/ \E p \in Paths, c \in Contents : WriteFile(p, c)
    \/ \E p \in Paths : RemoveFile(p)
    \/ \E files \in SUBSET Paths : WatchFiles(files)
    \/ WatchDirectory
    \/ \E directory \in BOOLEAN, ord \in PathOrders :
            DetectChanges(directory, ord)

SpecTracker == Init /\ [][NextTracker]_vars

\* The ledger with record_command failing partway.
NextAtomic ==
    \/ NextLedger
    \/ \E id \in DbIds, exit \in ExitCodes, stage \in RecordStages :
            DbRecordCommandRaises(id, exit, stage)

SpecAtomic == InitLedger /\ [][NextAtomic]_vars

\* record() called with any arguments, on a command with any effect.
RecordCall ==
    /\ Idle
    /\ Len(commands) < MaxCommands
    /\ \E track_files \in SUBSET Paths, track_cwd, execute \in BOOLEAN :
       \E effect \in (IF execute THEN Effects ELSE {fs}),
          run \in (IF execute THEN {Returned(0, ""), Returned(1, "")}
                           ELSE {NotRun}),
          ord \in PathOrders, step \in {0, 1}, bfaults \in Protected,
          mtime \in {now} :
            Record(track_files, track_cwd, execute, effect, run, ord,
                   step, bfaults, mtime)

\* The recorder running commands and tracking what they do to the files.
NextRecorder ==
    \/ Return
    \/ RecEndSession
    \/ RecordCall

SpecRecorder == Init /\ [][NextRecorder]_vars

\* The ledger's queries over commands recorded as the clock advances.
NextQueries ==
    \/ Return
    \/ Tick
    \/ DbStartSession(AdHocId, Null, Null)
    \/ \E id \in DbIds, exit \in ExitCodes, r \in Recordings :
            DbRecordCommand(id, exit, r.command, r.output)
    \/ \E session_id \in Option(DbIds), limit \in Limits,
          since \in Option(SinceBounds), with_errors \in BOOLEAN,
          search \in Option(SearchWords) :
            GetCommands(session_id, limit, since, with_errors, search)
    \/ \E command_id \in 0..(MaxCommands + 1) : GetCommandById(command_id)
    \/ GetLastCommand
    \/ GetStats

SpecQueries == InitLedger /\ [][NextQueries]_vars

\* get_stats over a ledger that already holds commands of every outcome.
StatsRows == 3
Stored(exits) ==
    [i \in 1..Len(exits) |-> [session_id |-> AdHocId, timestamp |-> -1,
                              exit_code |-> exits[i], command |-> Plain,
                              output |-> Null, error_output |-> Null]]
InitStats ==
    /\ now = 0
    /\ sessions = <<>>
    /\ \E n \in 0..StatsRows : commands \in {Stored(e) : e \in [1..n -> ExitCodes]}
    /\ commands_fts = 1..Len(commands)
    /\ file_changes = <<>>
    /\ fs = [p \in Paths |-> Null]
    /\ backups = <<>>
    /\ watched = <<>>
    /\ baseline = <<>>
    /\ current_session_id = Null
    /\ recorded = <<>>
    /\ last = NoCall
NextStats ==
    \/ Return
    \/ \E exit \in ExitCodes : DbRecordCommand(AdHocId, exit, Plain, Null)
    \/ GetStats

SpecStats == InitStats /\ [][NextStats]_vars

\* The backup directory called directly: it already holds backups of earlier
\* commands, of several ages.
Kept == {BackupName("f", 1, -1), BackupName("sub/f", 2, -1)}
\* A location no backup was ever written to.
Vacant == BackupName("f", 0, -1)
InitBackups ==
    /\ now = 0
    /\ sessions = <<>>
    /\ commands = <<>>
    /\ commands_fts = {}
    /\ file_changes = <<>>
    /\ fs \in [Paths -> {Null, File("v1")}]
    /\ backups \in [Kept -> [c : Contents, m : {-2, -1}]]
    /\ watched = <<>>
    /\ baseline = <<>>
    /\ current_session_id = Null
    /\ recorded = <<>>
    /\ last = NoCall
NextBackups ==
    \/ Return
    \/ Tick
    \/ \E p \in Paths : WriteFile(p, "v2")
    \/ \E p \in Paths, fault \in BOOLEAN, mtime \in {-2, now} :
            BackupFile(p, 1, fault, mtime)
    \/ \E loc \in DOMAIN backups \cup {Vacant}, p \in Paths, fault \in BOOLEAN :
            RestoreFile(loc, p, fault)
    \/ \E days \in MaxAges, denied \in SUBSET DOMAIN backups :
            CleanupOldBackups(days, denied)

SpecBackups == InitBackups /\ [][NextBackups]_vars

\* The tracker called on files and directories of any accessibility.
NextDenied ==
    \/ Return
    \/ \E p \in Paths, c \in Contents : WriteFile(p, c)
    \/ \E p \in Paths, io \in [Paths -> Access], strict \in BOOLEAN :
            GetFileHash(p, io, strict)
    \/ \E root \in Roots, io \in [Paths -> Access], strict \in BOOLEAN :
            SnapshotDirectory(root, io, strict)
    \/ \E files \in PathOrders, io \in [Paths -> Access], strict \in BOOLEAN :
            WatchFilesDenied(files, io, strict)
    \/ \E root \in Roots, io \in [Paths -> Access], strict \in BOOLEAN :
            WatchDirectoryDenied(root, io, strict)
    \/ \E ord \in PathOrders, io \in [Paths -> Access], strict \in BOOLEAN :
            DetectChangesDenied(ord, io, strict)

SpecDenied == Init /\ [][NextDenied]_vars

\* The recorder's sessions: commands logged and recorded, executed or not,
\* with no file tracked, as sessions start and end and the clock advances.
NextRecording ==
    \/ Return
    \/ Tick
    \/ \E name \in SessionNames : RecStartSession(name)
    \/ RecEndSession
    \/ \E exit \in ExitCodes : RecLog(exit)
    \/ \E execute \in BOOLEAN, ord \in PathOrders :
       \E run \in (IF execute THEN RunOutcomes ELSE {NotRun}) :
            Record({}, FALSE, execute, fs, run, ord, 0, {}, now)

SpecRecording == InitLedger /\ [][NextRecording]_vars

\* Rollback of records of any change kind a caller may store.
NextKinds ==
    \/ Return
    \/ \E p \in Paths : WriteFile(p, "v2")
    \/ DbRecordCommand(AdHocId, Null, Plain, Null)
    \/ \E cid \in Latest, p \in Paths, kind \in ChangeTypes :
            DbRecordFileChange(cid, p, kind, Null, Null, Null)
    \/ \E cid \in CommandIds, dry_run \in BOOLEAN :
            RollbackCommand(cid, dry_run, {})

SpecKinds == Init /\ [][NextKinds]_vars

\* The whole program: every call of the three parts, and the clock.
Next ==
    \/ NextRollback
    \/ NextLedger
    \/ NextRecorder
    \/ NextAtomic
    \/ NextSessions
    \/ NextWindow
    \/ NextTracker
    \/ NextQueries
    \/ NextStats
    \/ NextBackups
    \/ NextDenied
    \/ NextRecording
    \/ NextKinds
    \/ Tick
    \/ \E cid \in CommandIds, p \in Paths, kind \in ChangeTypes,
          old_hash, new_hash \in {Null} \cup {Some(Md5(c)) : c \in Contents},
          backup_path \in {Null} \cup {Some(b) : b \in DOMAIN backups} :
            DbRecordFileChange(cid, p, kind, old_hash, new_hash, backup_path)

Spec == Init /\ [][Next]_vars

\* ================================================================ claims
\* The records of command cid, and those among them that need a backup and
\* have none that exists.
RowsOf(cid) == get_file_changes(file_changes, cid)
Unbacked(rows, B) ==
    {i \in 1..Len(rows) :
        /\ rows[i].change_type \in Destructive
        /\ \/ IsNull(rows[i].backup_path)
           \/ Val(rows[i].backup_path) \notin DOMAIN B}
Least(S) == CHOOSE i \in S : \A j \in S : i <= j
Greatest(S) == CHOOSE i \in S : \A j \in S : i >= j
Eligible(cid) == RowsOf(cid) # <<>> /\ Unbacked(RowsOf(cid), backups) = {}
IsRollback == last.op \in {"rollback_command", "rollback_last"}

\* C3: can_rollback refuses with 'no file changes' when the command has no
\* records, refuses naming the file of the first modified / deleted record
\* whose backup pointer is null or whose backup is gone, and accepts in every
\* other case.
C3_CanRollback ==
    last.op = "can_rollback" =>
        LET rows == RowsOf(last.cmd)
            bad == Unbacked(rows, backups)
        IN  /\ rows = <<>> =>
                /\ ~last.ret.ok
                /\ last.ret.reason = "No file changes recorded for this command"
            /\ (rows # <<>> /\ bad = {}) => last.ret.ok
            /\ bad # {} =>
                /\ ~last.ret.ok
                /\ last.ret.file = Some(rows[Least(bad)].file_path)
                /\ last.ret.reason =
                     IF IsNull(rows[Least(bad)].backup_path)
                     THEN "No backup available for"
                     ELSE "Backup file missing for"

\* A created record comes first and imposes nothing; the refusal names the
\* file of the second record, whose backup was cleaned up.
C3_Witness ==
    /\ last.op = "can_rollback"
    /\ Len(RowsOf(last.cmd)) = 2
    /\ RowsOf(last.cmd)[1].change_type = "created"
    /\ last.ret.reason = "Backup file missing for"
    /\ last.ret.file = Some(RowsOf(last.cmd)[2].file_path)

\* C4: when can_rollback is false, rollback_command in either mode returns
\* success = false and no actions, and leaves every live file as it was,
\* the files of its eligible records included.
C4_RefusalTouchesNothing ==
    (last.op = "rollback_command" /\ ~Eligible(Val(last.cmd))) =>
        /\ ~last.ret.success
        /\ last.ret.actions = <<>>
        /\ fs = last.fs_before
        /\ backups = last.backups_before

\* Apply mode; a created record whose file exists stands before a modified
\* record without backup: the created file is still there.
C4_Witness ==
    /\ last.op = "rollback_command"
    /\ ~last.dry_run
    /\ Len(RowsOf(Val(last.cmd))) = 2
    /\ RowsOf(Val(last.cmd))[1].change_type = "created"
    /\ Exists(fs, RowsOf(Val(last.cmd))[1].file_path)
    /\ RowsOf(Val(last.cmd))[1].file_path \notin last.faults
    /\ RowsOf(Val(last.cmd))[2].change_type = "modified"
    /\ IsNull(RowsOf(Val(last.cmd))[2].backup_path)
    /\ ~last.ret.success

\* C5: a dry run (rollback_command or rollback_last) changes no live file and
\* no backup, whether it refuses or not; for an eligible command its result
\* has one action per record, in order, each pending.
C5_DryRunPure ==
    (IsRollback /\ last.dry_run) =>
        /\ fs = last.fs_before
        /\ backups = last.backups_before
        /\ IsNull(last.cmd) => (~last.ret.success /\ last.ret.actions = <<>>)
        /\ (~IsNull(last.cmd) /\ Eligible(Val(last.cmd))) =>
            LET rows == RowsOf(Val(last.cmd)) IN
            /\ Len(last.ret.actions) = Len(rows)
            /\ \A i \in 1..Len(rows) :
                /\ last.ret.actions[i].file = rows[i].file_path
                /\ last.ret.actions[i].status = "pending"

\* rollback_last, dry run, on a command with a created file that exists and
\* a modified file whose backup differs from the live content.
C5_Witness ==
    /\ last.op = "rollback_last"
    /\ last.dry_run
    /\ ~IsNull(last.cmd)
    /\ Eligible(Val(last.cmd))
    /\ Len(last.ret.actions) = 2
    /\ \E i, j \in 1..2 :
        LET rows == RowsOf(Val(last.cmd)) IN
        /\ rows[i].change_type = "created" /\ Exists(fs, rows[i].file_path)
        /\ rows[j].change_type = "modified"
        /\ fs[rows[j].file_path] # File(backups[Val(rows[j].backup_path)].c)

\* What a successful action on record fc leaves at its path.
Undone(fc, B) ==
    IF fc.change_type = "created" THEN Null
    ELSE File(B[Val(fc.backup_path)].c)
\* The successful actions before action i / among all, on path p.
DoneBefore(rows, actions, i, p) ==
    {j \in 1..(i - 1) : rows[j].file_path = p /\ actions[j].status = "success"}
\* The file at path p when the turn of action i comes (i = number of
\* actions + 1: when the loop has ended), starting from live files F0.
FileAtTurn(rows, actions, i, p, F0, B) ==
    IF DoneBefore(rows, actions, i, p) = {} THEN F0[p]
    ELSE Undone(rows[Greatest(DoneBefore(rows, actions, i, p))], B)

\* C6: in apply mode on an eligible command every record gets its action,
\* whatever happened to the earlier ones; an action fails exactly when its own
\* delete or restore fails; each file is left as the last successful action
\* on it left it (untouched if none succeeded); and success is true exactly
\* when no action failed.
C6_BestEffort ==
    (IsRollback /\ ~last.dry_run /\ ~IsNull(last.cmd)
     /\ Eligible(Val(last.cmd))) =>
        LET rows == RowsOf(Val(last.cmd))
            acts == last.ret.actions
        IN  /\ Len(acts) = Len(rows)
            /\ \A i \in 1..Len(rows) :
                /\ acts[i].file = rows[i].file_path
                /\ acts[i].status \in {"success", "failed"}
                /\ acts[i].status = "failed" <=>
                     \/ rows[i].file_path \in last.faults
                     \/ /\ rows[i].change_type = "created"
                        /\ IsNull(FileAtTurn(rows, acts, i, rows[i].file_path,
                                             last.fs_before, backups))
            /\ \A p \in Paths :
                fs[p] = FileAtTurn(rows, acts, Len(rows) + 1, p,
                                   last.fs_before, backups)
            /\ last.ret.success <=>
                 (\A i \in 1..Len(acts) : acts[i].status # "failed")

\* The first action failed, the second one was still carried out and its
\* file restored; the overall result is a failure.
C6_Witness ==
    /\ IsRollback /\ ~last.dry_run /\ ~IsNull(last.cmd)
    /\ Eligible(Val(last.cmd))
    /\ Len(last.ret.actions) = 2
    /\ last.ret.actions[1].status = "failed"
    /\ last.ret.actions[2].status = "success"
    /\ last.ret.actions[2].action = "restore"
    /\ fs[last.ret.actions[2].file] # last.fs_before[last.ret.actions[2].file]
    /\ ~last.ret.success

\* C7: round trip.  backup_file stores the bytes the file has when it is
\* called; and when an apply-mode rollback reaches a modified or deleted
\* record whose backup still holds the recorded old digest, with no I/O
\* fault on its path and no later record on the same path, the file ends
\* with exactly that digest and the action is a successful restore.
C7_RoundTrip ==
    /\ (last.op = "backup_file" /\ ~IsNull(last.ret)) =>
        /\ Val(last.ret) \in DOMAIN backups
        /\ File(backups[Val(last.ret)].c) = fs[last.path]
    /\ (IsRollback /\ ~last.dry_run /\ ~IsNull(last.cmd)
        /\ Eligible(Val(last.cmd))) =>
        LET rows == RowsOf(Val(last.cmd)) IN
        \A i \in 1..Len(rows) :
            (/\ rows[i].change_type \in Destructive
             /\ rows[i].file_path \notin last.faults
             /\ rows[i].old_hash =
                  Some(Md5(backups[Val(rows[i].backup_path)].c))
             /\ \A j \in (i + 1)..Len(rows) :
                  rows[j].file_path # rows[i].file_path)
            => /\ get_file_hash(fs, rows[i].file_path) = rows[i].old_hash
               /\ last.ret.actions[i].action = "restore"
               /\ last.ret.actions[i].status = "success"

\* One rollback restores a modified file from "v2" to the backed-up "v1" and
\* recreates a deleted file.
C7_Witness ==
    /\ last.op = "rollback_command" /\ ~last.dry_run
    /\ Eligible(Val(last.cmd))
    /\ last.ret.success
    /\ \E i, j \in 1..Len(RowsOf(Val(last.cmd))) :
        LET rows == RowsOf(Val(last.cmd)) IN
        /\ rows[i].change_type = "modified"
        /\ rows[i].old_hash = Some(Md5("v1"))
        /\ last.fs_before[rows[i].file_path] = File("v2")
        /\ fs[rows[i].file_path] = File("v1")
        /\ rows[j].change_type = "deleted"
        /\ rows[j].file_path # rows[i].file_path
        /\ ~Exists(last.fs_before, rows[j].file_path)
        /\ get_file_hash(fs, rows[j].file_path) = rows[j].old_hash

\* C8: an apply-mode rollback_command on a command whose only record is
\* created for a file that exists (and can be deleted) leaves the file
\* absent and returns one action, delete with status success, and success.
C8_RollbackCreation ==
    (/\ last.op = "rollback_command" /\ ~last.dry_run
     /\ Len(RowsOf(Val(last.cmd))) = 1
     /\ RowsOf(Val(last.cmd))[1].change_type = "created"
     /\ Exists(last.fs_before, RowsOf(Val(last.cmd))[1].file_path)
     /\ RowsOf(Val(last.cmd))[1].file_path \notin last.faults)
    => /\ ~Exists(fs, RowsOf(Val(last.cmd))[1].file_path)
       /\ Len(last.ret.actions) = 1
       /\ last.ret.actions[1].file = RowsOf(Val(last.cmd))[1].file_path
       /\ last.ret.actions[1].action = "delete"
       /\ last.ret.actions[1].status = "success"
       /\ last.ret.success

C8_Witness ==
    /\ last.op = "rollback_command" /\ ~last.dry_run
    /\ Len(RowsOf(Val(last.cmd))) = 1
    /\ RowsOf(Val(last.cmd))[1].change_type = "created"
    /\ Exists(last.fs_before, RowsOf(Val(last.cmd))[1].file_path)
    /\ ~Exists(fs, RowsOf(Val(last.cmd))[1].file_path)
    /\ last.ret.success

\* C9: record_command on an existing session adds one to command_count, one
\* to success_count exactly when the exit code is 0, one to error_count
\* exactly when it is neither null nor 0; so for the N commands recorded on a
\* session row since it was inserted, command_count = N and
\* success_count + error_count <= N, with equality exactly when none of them
\* had a null exit code.
C9_Counters ==
    /\ (last.op \in {"record_command", "log", "record"}
        /\ ~IsNull(last.before)) =>
        LET b == Val(last.before)
            a == sessions[last.sid]
        IN  /\ a.command_count = b.command_count + 1
            /\ a.success_count =
                 b.success_count + (IF last.exit = Some(0) THEN 1 ELSE 0)
            /\ a.error_count =
                 b.error_count
                 + (IF ~IsNull(last.exit) /\ Val(last.exit) # 0 THEN 1 ELSE 0)
    /\ \A s \in DOMAIN sessions :
        /\ sessions[s].command_count = recorded[s].n
        /\ sessions[s].success_count + sessions[s].error_count <= recorded[s].n
        /\ (sessions[s].success_count + sessions[s].error_count = recorded[s].n)
             <=> recorded[s].nulls = 0

\* A command with a null exit code was just recorded on a session that held
\* a successful one: two commands, the counters sum to one.
C9_Witness ==
    /\ last.op = "record_command"
    /\ ~IsNull(last.before)
    /\ IsNull(last.exit)
    /\ sessions[last.sid].command_count = 2
    /\ sessions[last.sid].success_count = 1
    /\ sessions[last.sid].error_count = 0

\* C10: each session row's command_count is the number of command rows
\* stored with its id.
C10_CountMatchesRows ==
    \A s \in DOMAIN sessions :
        sessions[s].command_count =
            Cardinality({i \in 1..Len(commands) : commands[i].session_id = s})

\* C1: the backup a file-change record of record() points to holds the
\* bytes the file had before the command ran.
C1_BackupHoldsOriginal ==
    last.op = "record" =>
        \A i \in 1..Len(RowsOf(last.ret)) :
            LET fc == RowsOf(last.ret)[i] IN
            (/\ fc.change_type \in Destructive
             /\ ~IsNull(fc.backup_path)
             /\ Val(fc.backup_path) \in DOMAIN backups)
            => File(backups[Val(fc.backup_path)].c) = last.fs_before[fc.file_path]

\* C2: every modified / deleted record that record() writes (its backup copy
\* not hitting an I/O fault) carries a backup pointer that names an existing
\* backup; created records carry none.
C2_BackupPointerPresent ==
    last.op = "record" =>
        \A i \in 1..Len(RowsOf(last.ret)) :
            LET fc == RowsOf(last.ret)[i] IN
            /\ (fc.change_type \in Destructive
                /\ fc.file_path \notin last.bfaults)
               => (/\ ~IsNull(fc.backup_path)
                   /\ Val(fc.backup_path) \in DOMAIN backups)
            /\ fc.change_type = "created" => IsNull(fc.backup_path)

\* C11: the command row, its search-index entry and its counter update
\* become durable together or not at all: after a ledger call that committed,
\* every command row is indexed and every session row has counted each
\* command recorded on it.
Committing ==
    {"start_session", "end_session", "record_command", "record_file_change",
     "log", "recorder_end_session"}
C11_AtomicRecord ==
    last.op \in Committing =>
        /\ \A i \in 1..Len(commands) : i \in commands_fts
        /\ \A s \in DOMAIN sessions : sessions[s].command_count = recorded[s].n

\* C12: start_session is an upsert, last writer wins: after a call the id
\* has its one row, holding the name, description and start time of this
\* call, and the call returns the id it was given.
C12_Upsert ==
    last.op = "start_session" =>
        /\ last.ret = last.sid
        /\ last.sid \in DOMAIN sessions
        /\ sessions[last.sid].name = last.name
        /\ sessions[last.sid].description = last.description
        /\ sessions[last.sid].started_at = last.at

\* The second call on an id, every value differing from the first call's.
C12_Witness ==
    /\ last.op = "start_session"
    /\ ~IsNull(last.before)
    /\ Val(last.before).name # last.name
    /\ Val(last.before).description # last.description
    /\ Val(last.before).started_at # last.at
    /\ sessions[last.sid].name = last.name

\* C13: start_session on an id that already has a row leaves that row's
\* command_count, success_count and error_count as they were.
C13_CountersKept ==
    (last.op = "start_session" /\ ~IsNull(last.before)) =>
        /\ sessions[last.sid].command_count = Val(last.before).command_count
        /\ sessions[last.sid].success_count = Val(last.before).success_count
        /\ sessions[last.sid].error_count = Val(last.before).error_count

\* C14: end_session(id) sets ended_at of the row with that id to a non-null
\* value and changes nothing else; with no such row it creates none and
\* leaves every session, command and file-change row as it was.
C14_EndSession ==
    [][(last.op = "none" /\ last'.op = "end_session") =>
        /\ DOMAIN sessions' = DOMAIN sessions
        /\ \A s \in DOMAIN sessions :
            IF s = last'.sid
            THEN /\ ~IsNull(sessions'[s].ended_at)
                 /\ [sessions'[s] EXCEPT !.ended_at = sessions[s].ended_at]
                        = sessions[s]
            ELSE sessions'[s] = sessions[s]
        /\ UNCHANGED <<commands, commands_fts, file_changes, fs, backups,
                       tracker, current_session_id>>]_vars

\* end_session on an id with no row, beside a session and a command that
\* exist.
C14_Witness ==
    /\ last.op = "end_session"
    /\ last.sid \notin DOMAIN sessions
    /\ sessions # <<>>
    /\ commands # <<>>

\* C15: a session's ended_at is null when start_session writes the row,
\* non-null when end_session is called for its id, and otherwise stays as it
\* is through every call; no call removes a session row.
C15_SessionLifecycle ==
    [][/\ DOMAIN sessions \subseteq DOMAIN sessions'
       /\ \A s \in DOMAIN sessions' :
            LET started == /\ last.op = "none"
                           /\ last'.op = "start_session"
                           /\ last'.sid = s
                ended == /\ last.op = "none"
                         /\ last'.op = "end_session"
                         /\ last'.sid = s
            IN  /\ started => IsNull(sessions'[s].ended_at)
                /\ ended => ~IsNull(sessions'[s].ended_at)
                /\ (~started /\ ~ended) =>
                    /\ s \in DOMAIN sessions
                    /\ sessions'[s].ended_at = sessions[s].ended_at]_vars

\* A command recorded on a session that was ended: the session stays ended.
C15_Witness ==
    /\ last.op = "record_command"
    /\ last.sid \in DOMAIN sessions
    /\ ~IsNull(sessions[last.sid].ended_at)
    /\ file_changes # <<>>

\* C16: rollback_last rolls back the command that comes first, latest
\* timestamp first within the 20 most recent commands, among those with file
\* change records, and returns that command's rollback_command result, its
\* refusal included; when no command in the window has records it fails with
\* 'no recent changes', no actions, and changes no file.
HasChanges(cid) == RowsOf(cid) # <<>>
Newer(cid) ==
    {d \in 1..Len(commands) : commands[d].timestamp > commands[cid].timestamp}
NotOlder(cid) ==
    {d \in 1..Len(commands) \ {cid} :
        commands[d].timestamp >= commands[cid].timestamp}
C16_RollbackLast ==
    last.op = "rollback_last" =>
        IF IsNull(last.cmd)
        THEN /\ last.ret = [success |-> FALSE,
                            error |-> "No recent commands with file changes found",
                            actions |-> <<>>]
             /\ fs = last.fs_before
             /\ \A c \in 1..Len(commands) :
                    HasChanges(c) => Cardinality(NotOlder(c)) >= RollbackWindow
        ELSE LET c == Val(last.cmd)
                 out == rollback_command(file_changes, last.fs_before,
                                         last.backups_before, c, last.dry_run,
                                         last.faults)
             IN  /\ HasChanges(c)
                 /\ \A d \in Newer(c) : ~HasChanges(d)
                 /\ Cardinality(Newer(c)) < RollbackWindow
                 /\ last.ret = Result(out)
                 /\ fs = out.fs

\* Twenty-one commands, the oldest alone has records: it lies outside the
\* window and rollback_last finds nothing.
C16_Witness ==
    /\ last.op = "rollback_last"
    /\ IsNull(last.cmd)
    /\ Len(commands) > RollbackWindow
    /\ HasChanges(1)

\* The entries of a detect_changes result that name path p, the digest of
\* optional bytes, and the kind of the keys the baseline holds.
EntriesFor(ret, p) == {i \in 1..Len(ret) : ret[i].path = p}
Digest(b) == IF IsNull(b) THEN Null ELSE Some(Md5(Val(b)))
BaselineKind(k) == \A key \in DOMAIN watched : key.k = k
BaselinePaths == {KeyPath(key) : key \in DOMAIN watched}
OneEntry(ret, p, type) ==
    /\ Cardinality(EntriesFor(ret, p)) = 1
    /\ \A i \in EntriesFor(ret, p) : ret[i].type = type

\* C17: detect_changes(root) after watch_directory(root) returns one
\* deleted entry for each baseline path that is gone, one modified entry for
\* each path in both with a different digest, one created entry for each live
\* path not in the baseline, and nothing else.
C17_DirectoryMode ==
    (last.op = "detect_changes" /\ last.directory /\ BaselineKind("rel")) =>
        \A p \in Paths :
            LET was == p \in BaselinePaths
                is == Exists(fs, p)
            IN  IF was /\ ~is THEN OneEntry(last.ret, p, "deleted")
                ELSE IF was /\ is /\ Digest(baseline[RelKey(p)]) # Digest(fs[p])
                THEN OneEntry(last.ret, p, "modified")
                ELSE IF ~was /\ is THEN OneEntry(last.ret, p, "created")
                ELSE EntriesFor(last.ret, p) = {}

\* f was in the baseline and is gone, sub/f is new: one deleted and one
\* created entry.
C17_Witness ==
    /\ last.op = "detect_changes"
    /\ last.directory
    /\ DOMAIN watched = {RelKey("f")}
    /\ Len(last.ret) = 2
    /\ OneEntry(last.ret, "f", "deleted")
    /\ OneEntry(last.ret, "sub/f", "created")

\* C18: detect_changes() after watch_files(paths) classifies each watched
\* path and no other: created when absent at watch time and present now,
\* deleted when present then and absent now, modified when present at both
\* times with different digests, no entry when the digest is the same.
C18_FileMode ==
    (last.op = "detect_changes" /\ ~last.directory /\ BaselineKind("abs")) =>
        \A p \in Paths :
            IF p \notin BaselinePaths THEN EntriesFor(last.ret, p) = {}
            ELSE LET old == Digest(baseline[AbsKey(p)])
                     new == Digest(fs[p])
                 IN  IF IsNull(old) /\ ~IsNull(new)
                     THEN OneEntry(last.ret, p, "created")
                     ELSE IF ~IsNull(old) /\ IsNull(new)
                     THEN OneEntry(last.ret, p, "deleted")
                     ELSE IF old # new THEN OneEntry(last.ret, p, "modified")
                     ELSE EntriesFor(last.ret, p) = {}

\* Both paths watched while absent; f was created since, sub/f is still
\* absent: one created entry and nothing for sub/f.
C18_Witness ==
    /\ last.op = "detect_changes"
    /\ ~last.directory
    /\ DOMAIN watched = {AbsKey("f"), AbsKey("sub/f")}
    /\ IsNull(baseline[AbsKey("f")])
    /\ IsNull(baseline[AbsKey("sub/f")])
    /\ ~Exists(fs, "sub/f")
    /\ Len(last.ret) = 1
    /\ OneEntry(last.ret, "f", "created")

\* C19: the digest alone decides: equal contents have equal digests and
\* different contents different ones, and a path present at watch time and
\* now is reported modified exactly when its bytes changed, whatever its size.
C19_DigestOnly ==
    /\ \A c1, c2 \in Contents : (Md5(c1) = Md5(c2)) <=> (c1 = c2)
    /\ (/\ last.op = "detect_changes"
        /\ BaselineKind(IF last.directory THEN "rel" ELSE "abs")) =>
        \A key \in DOMAIN watched :
            (~IsNull(baseline[key]) /\ Exists(fs, KeyPath(key))) =>
                IF baseline[key] # fs[KeyPath(key)]
                THEN OneEntry(last.ret, KeyPath(key), "modified")
                ELSE EntriesFor(last.ret, KeyPath(key)) = {}

\* A file rewritten with other bytes of the same length is reported.
C19_Witness ==
    /\ last.op = "detect_changes"
    /\ \E key \in DOMAIN watched :
        /\ ~IsNull(baseline[key])
        /\ Exists(fs, KeyPath(key))
        /\ baseline[key] # fs[KeyPath(key)]
        /\ Size(Val(baseline[key])) = Size(Val(fs[KeyPath(key)]))
        /\ OneEntry(last.ret, KeyPath(key), "modified")

Elems(q) == {q[k] : k \in DOMAIN q}
\* A result of get_commands: the newest rows of the set M, newest first, as
\* many as the limit allows.
NewestOf(ret, M, limit) ==
    /\ Elems(ret) \subseteq M
    /\ Cardinality(Elems(ret)) = Len(ret)
    /\ Len(ret) = Min(limit, Cardinality(M))
    /\ \A a, b \in DOMAIN ret :
        a < b => commands[ret[a]].timestamp >= commands[ret[b]].timestamp
    /\ \A i \in M \ Elems(ret), j \in Elems(ret) :
        commands[i].timestamp <= commands[j].timestamp
InSession(i, session_id) ==
    IsNull(session_id) \/ commands[i].session_id = Val(session_id)
Failed(i) == ~IsNull(commands[i].exit_code) /\ Val(commands[i].exit_code) # 0

\* C21: without search text get_commands returns exactly the commands that
\* satisfy every supplied filter (session id equal, timestamp at or after
\* since, and with errors only an exit code that is present and not zero),
\* newest first and cut at the limit, so the returned ones are the most
\* recent matching commands.
C21_Filters ==
    (last.op = "get_commands" /\ IsNull(last.search)) =>
        NewestOf(last.ret,
                 {i \in 1..Len(commands) :
                    /\ InSession(i, last.session_id)
                    /\ IsNull(last.since) \/ commands[i].timestamp >= Val(last.since)
                    /\ last.with_errors => Failed(i)},
                 last.limit)

\* A query with all three filters that returns the failed command recorded
\* exactly at the bound and leaves out an older failed one of the session.
C21_Witness ==
    /\ last.op = "get_commands" /\ IsNull(last.search)
    /\ ~IsNull(last.session_id) /\ ~IsNull(last.since) /\ last.with_errors
    /\ Len(last.ret) = 1
    /\ commands[last.ret[1]].timestamp = Val(last.since)
    /\ \E i \in 1..Len(commands) :
        /\ InSession(i, last.session_id) /\ Failed(i)
        /\ commands[i].timestamp < Val(last.since)

Occurs(w, text) == \E k \in DOMAIN text : text[k] = w
Mentions(i, w) ==
    \/ Occurs(w, commands[i].command)
    \/ ~IsNull(commands[i].output) /\ Occurs(w, Val(commands[i].output))

\* C22: with search text get_commands ignores since and with_errors: it
\* returns the commands whose command text or captured stdout matches the
\* text, of the given session if one is given, newest first and cut at the
\* limit.
C22_SearchMode ==
    (last.op = "get_commands" /\ ~IsNull(last.search)) =>
        NewestOf(last.ret,
                 {i \in 1..Len(commands) :
                    InSession(i, last.session_id) /\ Mentions(i, Val(last.search))},
                 last.limit)

\* After 'build project' and 'test project', a search for 'build' with a
\* since bound later than the build command and with errors only returns
\* the successful build command alone.
C22_Witness ==
    /\ last.op = "get_commands" /\ last.search = Some("build")
    /\ ~IsNull(last.since) /\ last.with_errors
    /\ Len(commands) = 2 /\ last.limit = 2
    /\ \E i, j \in 1..2 :
        /\ commands[i].command = <<"build", "project">>
        /\ commands[j].command = <<"test", "project">>
        /\ commands[i].timestamp < Val(last.since)
        /\ commands[i].exit_code = Some(0)
        /\ last.ret = <<i>>

ExitIs(i, v) == ~IsNull(commands[i].exit_code) /\ Val(commands[i].exit_code) = v
Succeeded == {i \in 1..Len(commands) : ExitIs(i, 0)}
Unknown == {i \in 1..Len(commands) : IsNull(commands[i].exit_code)}

\* C23: get_stats tells a missing exit code from 0: successful_commands
\* counts the commands with exit code 0, failed_commands those with an exit
\* code that is present and not zero, a command without exit code is in
\* neither (successful + failed <= total, equal exactly when none is
\* missing); success_rate, in tenths of a percent, is the tenth nearest to
\* successful / total * 100, and 0 when there is no command.
C23_Stats ==
    last.op = "get_stats" =>
        LET r == last.ret
            t == Len(commands)
        IN  /\ r.total_commands = t
            /\ r.successful_commands = Cardinality(Succeeded)
            /\ r.failed_commands = Cardinality({i \in 1..t : Failed(i)})
            /\ r.successful_commands + r.failed_commands <= t
            /\ (r.successful_commands + r.failed_commands = t) <=> (Unknown = {})
            /\ 2 * t * r.success_rate - 2000 * r.successful_commands \in (-t)..t
            /\ t = 0 => r.success_rate = 0

\* Statistics over one success, one failure and one command without exit
\* code: a rate of 33.3 percent.
C23_Witness ==
    /\ last.op = "get_stats"
    /\ last.ret.total_commands = 3
    /\ last.ret.successful_commands = 1 /\ last.ret.failed_commands = 1
    /\ last.ret.success_rate = 333

\* Statistics of the empty ledger.
C23_WitnessEmpty == last.op = "get_stats" /\ commands = <<>> /\ last.ret.success_rate = 0

IsPrefix(q, r) == Len(q) <= Len(r) /\ SubSeq(r, 1, Len(q)) = q

\* C24: the ledger only grows in commands and file-change records: no call
\* (record_command, record_file_change, start_session, end_session,
\* rollback, cleanup) changes or removes a command row or a file-change row
\* that is written, and record_file_change adds exactly one file-change row.
C24_AppendOnly ==
    [][/\ IsPrefix(commands, commands')
       /\ IsPrefix(file_changes, file_changes')
       /\ last'.op = "record_file_change" =>
            /\ Len(file_changes') = Len(file_changes) + 1
            /\ commands' = commands]_vars

\* A second file-change record written after a first one.
C24_Witness == last.op = "record_file_change" /\ Len(file_changes) = 2

\* C25: command ids are assigned by the store and grow: record_command
\* returns a positive id greater than every id assigned before (the ids of
\* the rows present) and stores the recorded command under it;
\* get_command_by_id returns the command stored under the id, nothing for an
\* id never assigned; get_last_command returns the command recorded last,
\* nothing on an empty ledger.
C25_Ids ==
    [][/\ last'.op = "record_command" =>
            /\ last'.ret > 0
            /\ \A i \in 1..Len(commands) : last'.ret > i
            /\ DOMAIN commands' = DOMAIN commands \cup {last'.ret}
            /\ commands'[last'.ret].session_id = last'.sid
            /\ commands'[last'.ret].exit_code = last'.exit
            /\ commands'[last'.ret].timestamp = now
       /\ last'.op = "get_command_by_id" =>
            IF last'.cmd \in DOMAIN commands
            THEN last'.ret = Some([id |-> last'.cmd, row |-> commands[last'.cmd]])
            ELSE IsNull(last'.ret)
       /\ last'.op = "get_last_command" =>
            IF commands = <<>> THEN IsNull(last'.ret)
            ELSE /\ ~IsNull(last'.ret)
                 /\ \A i \in DOMAIN commands : Val(last'.ret).id >= i
                 /\ Val(last'.ret).row = commands[Val(last'.ret).id]]_vars

\* get_last_command returning the second of two commands recorded at the
\* same clock reading.
C25_Witness ==
    /\ last.op = "get_last_command"
    /\ Len(commands) = 2
    /\ commands[1].timestamp = commands[2].timestamp
    /\ commands[1] # commands[2]
    /\ Val(last.ret).id = 2

\* C26: backup_file returns nothing and creates nothing when the source file
\* does not exist; otherwise a backup it returns holds the source's bytes at
\* a location no earlier call returned, so that no earlier backup is
\* overwritten, even for two files of the same basename backed up for the
\* same command at the same clock reading.
C26_BackupUnique ==
    [][last'.op = "backup_file" =>
        IF ~Exists(fs, last'.path)
        THEN IsNull(last'.ret) /\ backups' = backups
        ELSE ~IsNull(last'.ret) =>
                /\ Val(last'.ret) \notin DOMAIN backups
                /\ backups'[Val(last'.ret)].c = Val(fs[last'.path])
                /\ \A b \in DOMAIN backups :
                    b \in DOMAIN backups' /\ backups'[b] = backups[b]]_vars

\* C27: restore_file returns false and leaves the destination as it is when
\* the backup does not exist; otherwise, unless the copy is denied, it makes
\* the destination's bytes those of the backup whether or not the
\* destination existed, returns true, touches no other file and leaves the
\* backup in place.
C27_Restore ==
    [][last'.op = "restore_file" =>
        /\ backups' = backups
        /\ \A q \in Paths \ {last'.path} : fs'[q] = fs[q]
        /\ IF last'.loc \notin DOMAIN backups
           THEN ~last'.ret /\ fs' = fs
           ELSE ~last'.fault =>
                    last'.ret /\ fs'[last'.path] = File(backups[last'.loc].c)]_vars

\* A restore that created a destination which did not exist, below a
\* directory, from a backup that is still there.
C27_Witness ==
    /\ last.op = "restore_file" /\ last.ret
    /\ IsNull(last.before) /\ last.path = "sub/f"
    /\ last.loc \in DOMAIN backups
    /\ fs[last.path] = File(backups[last.loc].c)

\* A restore from a location that holds no backup, over an existing file.
C27_WitnessMissing ==
    /\ last.op = "restore_file" /\ ~last.ret
    /\ last.loc \notin DOMAIN backups /\ ~IsNull(last.before)

\* The backups of the directory before the last cleanup that were older
\* than its cutoff.
PastCutoff == {b \in DOMAIN last.backups_before : last.backups_before[b].m < now - last.days}

\* C28: cleanup_old_backups(days) deletes exactly the backups whose
\* modification time is before now minus days, except those it is denied to
\* delete, and leaves every other backup as it is; a denied deletion does
\* not keep the remaining backups from being examined and deleted.
C28_Cleanup ==
    last.op = "cleanup_old_backups" =>
        /\ DOMAIN backups = DOMAIN last.backups_before \ (PastCutoff \ last.denied)
        /\ \A b \in DOMAIN backups : backups[b] = last.backups_before[b]

\* A cleanup that was denied one old backup and deleted another.
C28_Witness ==
    /\ last.op = "cleanup_old_backups"
    /\ PastCutoff \cap last.denied # {}
    /\ PastCutoff \ DOMAIN backups # {}

\* A cleanup that kept a backup exactly at the cutoff and deleted an older one.
C28_WitnessCutoff ==
    /\ last.op = "cleanup_old_backups"
    /\ \E b \in DOMAIN backups : backups[b].m = now - last.days
    /\ PastCutoff \ DOMAIN backups # {}

\* The records of a command whose backup pointer leads to no backup.
Drifted(cid) ==
    {i \in DOMAIN RowsOf(cid) :
        /\ RowsOf(cid)[i].change_type \in Destructive
        /\ ~IsNull(RowsOf(cid)[i].backup_path)
        /\ Val(RowsOf(cid)[i].backup_path) \notin DOMAIN backups}

\* C29: drift between backups and ledger is detected: cleanup_old_backups
\* changes no file-change record, and once a backup that a modified or
\* deleted record points to is gone, can_rollback for the command refuses
\* and names the file of the first record without backup (with 'backup file
\* missing' when that record is one whose backup is gone), and
\* rollback_command in apply mode refuses, performs no action and changes
\* no file.
C29_Drift ==
    [][/\ last'.op = "cleanup_old_backups" => file_changes' = file_changes
       /\ (last'.op = "can_rollback" /\ Drifted(last'.cmd) # {}) =>
            LET rows == RowsOf(last'.cmd)
                first == Least(Unbacked(rows, backups))
            IN  /\ ~last'.ret.ok
                /\ last'.ret.file = Some(rows[first].file_path)
                /\ first \in Drifted(last'.cmd)
                    => last'.ret.reason = "Backup file missing for"
       /\ (/\ last'.op = "rollback_command" /\ ~last'.dry_run
           /\ Drifted(Val(last'.cmd)) # {}) =>
            /\ ~last'.ret.success
            /\ last'.ret.actions = <<>>
            /\ fs' = fs]_vars

\* can_rollback refusing a command because the backup its record points to
\* was deleted by a cleanup.
C29_Witness ==
    /\ last.op = "can_rollback"
    /\ Drifted(last.cmd) # {}
    /\ ~last.ret.ok /\ last.ret.reason = "Backup file missing for"

\* rollback_command in apply mode refusing such a command while the file it
\* would restore differs from what the command found.
C29_WitnessApply ==
    /\ last.op = "rollback_command" /\ ~last.dry_run
    /\ Drifted(Val(last.cmd)) # {}
    /\ ~last.ret.success /\ fs = last.fs_before

TrackerCalls ==
    {"get_file_hash", "snapshot_directory", "watch_files", "watch_directory",
     "detect_changes"}

\* C30: file I/O faults never make the tracker raise: get_file_hash returns
\* nothing for a path that does not exist or cannot be read,
\* snapshot_directory returns the empty map for a missing root, and
\* watch_files, watch_directory and detect_changes complete when a watched
\* path is missing or unreadable.
C30_NoCrash ==
    /\ last.op \in TrackerCalls => ~last.raised
    /\ last.op = "get_file_hash" =>
        ((~Exists(fs, last.path) \/ last.io[last.path] # "ok") => IsNull(last.ret))
    /\ (last.op = "snapshot_directory" /\ last.root = "missing") => last.ret = <<>>

\* C31: record and log called while no session is current start one first:
\* afterwards current_session_id is set, a session row with that id exists
\* and the command is stored under it (under the current session when there
\* is one); end_session of the recorder sets the end timestamp of the
\* current session and clears current_session_id, and does nothing when no
\* session is current.
C31_AutoSession ==
    [][/\ last'.op \in {"record", "log"} =>
            /\ ~IsNull(current_session_id')
            /\ Val(current_session_id') \in DOMAIN sessions'
            /\ commands'[last'.ret].session_id = Val(current_session_id')
            /\ IF IsNull(current_session_id)
               THEN sessions'[Val(current_session_id')].started_at = now
               ELSE current_session_id' = current_session_id
       /\ last'.op = "recorder_end_session" =>
            /\ IsNull(current_session_id')
            /\ IF IsNull(current_session_id) THEN sessions' = sessions
               ELSE /\ DOMAIN sessions' = DOMAIN sessions
                    /\ sessions'[Val(current_session_id)].ended_at = Some(now)
                    /\ \A s \in DOMAIN sessions \ {Val(current_session_id)} :
                        sessions'[s] = sessions[s]]_vars

\* record called with no current session after an earlier session was
\* ended: the command is stored under a session started by the call.
C31_Witness ==
    /\ last.op = "record"
    /\ IsNull(last.before) = FALSE
    /\ Cardinality(DOMAIN sessions) = 2
    /\ current_session_id = Some(last.sid)
    /\ sessions[last.sid].started_at = now
    /\ \E s \in DOMAIN sessions : ~IsNull(sessions[s].ended_at)

\* end_session called with no current session.
C31_WitnessIdle ==
    /\ last.op = "recorder_end_session" /\ IsNull(last.sid)
    /\ sessions # <<>>

\* C32: record writes a file-change record only for a file whose existence
\* or content differs between the watch step and the detect step of the
\* call; a file the command did not touch gets no record.
C32_OnlyRealChanges ==
    last.op = "record" =>
        \A i \in 1..Len(RowsOf(last.ret)) :
            last.fs_before[RowsOf(last.ret)[i].file_path]
                # fs[RowsOf(last.ret)[i].file_path]

\* C33: cleanup_old_backups(days) never deletes a backup that was created
\* less than days before the call, whatever the age of the file backed up.
C33_YoungBackupsStay ==
    last.op = "cleanup_old_backups" =>
        \A b \in DOMAIN last.backups_before :
            now - b.ts < last.days => b \in DOMAIN backups

\* C34: every start_session of the recorder creates a session distinct from
\* the existing ones: its id is not the id of a session already in the
\* ledger, and every earlier session row stays as it was.
C34_FreshSession ==
    [][last'.op = "start_session" =>
        /\ last'.ret \notin DOMAIN sessions
        /\ \A s \in DOMAIN sessions : sessions'[s] = sessions[s]]_vars

\* C35: detect_changes never modifies the baseline: the baseline changes
\* only in a watch call, and after a detect_changes another one on the same
\* files returns the same set of changes, so a change stays reported until
\* a watch call replaces the baseline.
C35_BaselineKept ==
    [][/\ watched' # watched => last'.op \in {"watch_files", "watch_directory"}
       /\ last'.op = "detect_changes" =>
            /\ watched' = watched
            /\ \A ord \in PathOrders :
                Elems(detect_changes(watched', fs', last'.directory, ord))
                    = Elems(last'.ret)]_vars

\* A detect_changes that reported a change of a watched file and left the
\* baseline holding the digest taken at the watch call.
C35_Witness ==
    /\ last.op = "detect_changes" /\ last.ret # <<>>
    /\ \E key \in DOMAIN watched :
        /\ ~IsNull(baseline[key])
        /\ baseline[key] # fs[KeyPath(key)]
        /\ watched[key] = Digest(baseline[key])

\* The commands rollback_last can pick on the ledger (one command, unless
\* commands share a timestamp).
Targets(C, FC) == {FirstWithChanges(FC, ids) : ids \in RecentOrders(C)}

\* C36: rollback_command and rollback_last, in dry-run and apply mode, add,
\* remove and change no session, command or file-change row and delete no
\* backup; so a command rolled back still has its file changes, and a
\* rollback_last that follows picks among the same commands as the one
\* before.
C36_RollbackFrame ==
    [][last'.op \in {"rollback_command", "rollback_last"} =>
        /\ sessions' = sessions
        /\ commands' = commands
        /\ file_changes' = file_changes
        /\ backups' = backups
        /\ last'.ret.success =>
            get_file_changes(file_changes', Val(last'.cmd)) # <<>>
        /\ Targets(commands', file_changes') = Targets(commands, file_changes)
        /\ last'.op = "rollback_last" =>
            last'.cmd \in Targets(commands', file_changes')]_vars

\* rollback_last in apply mode that restored a file from its backup: the
\* backup and the command's records are still there and the command is
\* the only one rollback_last can pick.
C36_Witness ==
    /\ last.op = "rollback_last" /\ ~last.dry_run /\ last.ret.success
    /\ \E i \in 1..Len(last.ret.actions) : last.ret.actions[i].action = "restore"
    /\ fs # last.fs_before
    /\ backups # <<>>
    /\ Targets(commands, file_changes) = {last.cmd}

\* rollback_command run once more on the state the last one left.
Again ==
    rollback_command(file_changes, fs, backups, Val(last.cmd), FALSE, last.faults)
\* The actions of the second run that differ from those of the first.
Differing == {i \in 1..Len(last.ret.actions) : Again.actions[i] # last.ret.actions[i]}

\* C37 as first stated: a second rollback_command of the same command right
\* after the first leaves every file as the first left it, and its result
\* differs from the first only in reporting as failed the deletion of a
\* created file that is already gone, overall success then being false.
C37_Original ==
    (last.op = "rollback_command" /\ ~last.dry_run) =>
        /\ Again.fs = fs
        /\ Len(Again.actions) = Len(last.ret.actions)
        /\ Again.error = last.ret.error
        /\ \A i \in Differing :
            /\ last.ret.actions[i].type = "created"
            /\ ~Exists(fs, last.ret.actions[i].file)
            /\ Again.actions[i] = [last.ret.actions[i] EXCEPT !.status = "failed"]
        /\ Again.success = (last.ret.success /\ Differing = {})

\* C37: rollback in apply mode is idempotent on the files: a second
\* rollback_command of the same command right after the first leaves every
\* file as the first left it; its result differs from the first only in
\* the status of deletions of created files: failed where the file is
\* already gone, success where the first run found the file missing and
\* then restored it through another record; a refused rollback is refused
\* again, and otherwise overall success is false exactly when an action
\* failed.
C37_Idempotent ==
    (last.op = "rollback_command" /\ ~last.dry_run) =>
        /\ Again.fs = fs
        /\ Len(Again.actions) = Len(last.ret.actions)
        /\ Again.error = last.ret.error
        /\ \A i \in Differing :
            /\ last.ret.actions[i].type = "created"
            /\ \/ /\ ~Exists(fs, last.ret.actions[i].file)
                  /\ Again.actions[i] = [last.ret.actions[i] EXCEPT !.status = "failed"]
               \/ /\ Exists(fs, last.ret.actions[i].file)
                  /\ ~Exists(last.fs_before, last.ret.actions[i].file)
                  /\ last.ret.actions[i].status = "failed"
                  /\ Again.actions[i] = [last.ret.actions[i] EXCEPT !.status = "success"]
        /\ IF last.ret.error # "" THEN ~Again.success
           ELSE Again.success =
                (\A i \in 1..Len(Again.actions) : Again.actions[i].status # "failed")

\* A rollback that deleted a created file and restored another from its
\* backup: run again it restores the same bytes and fails on the deletion.
C37_Witness ==
    /\ last.op = "rollback_command" /\ ~last.dry_run /\ last.ret.success
    /\ fs # last.fs_before
    /\ Differing # {}
    /\ \E i \in 1..Len(last.ret.actions) :
        /\ last.ret.actions[i].action = "restore"
        /\ Again.actions[i].status = "success"

\* C38: after rollback_command in apply mode on a command that passed
\* verification every action of the result is a delete or a restore with
\* status success or failed; none is left pending, whatever change kinds
\* were stored.
C38_NoPending ==
    (last.op = "rollback_command" /\ ~last.dry_run /\ last.ret.error = "") =>
        \A i \in 1..Len(last.ret.actions) :
            /\ last.ret.actions[i].action \in {"delete", "restore"}
            /\ last.ret.actions[i].status \in {"success", "failed"}

\* C39: record stores exactly one command row in every call.  With
\* execute=true, when the run times out or raises, the row has exit code -1
\* and a non-empty error text, and the session's error_count, not its
\* success_count, goes up by one; with execute=false the row has no exit
\* code and neither counter changes.
C39_RecordOutcome ==
    [][last'.op = "record" =>
        LET row == commands'[last'.ret]
            before == Val(last'.before)
            after == sessions'[last'.sid]
        IN  /\ Len(commands') = Len(commands) + 1
            /\ last'.ret = Len(commands')
            /\ \A i \in 1..Len(commands) : commands'[i] = commands[i]
            /\ after.command_count = before.command_count + 1
            /\ (last'.execute /\ last'.run.kind \in {"timeout", "raised"}) =>
                /\ row.exit_code = Some(-1)
                /\ ~IsNull(row.error_output)
                /\ Val(row.error_output) # ""
                /\ after.error_count = before.error_count + 1
                /\ after.success_count = before.success_count
            /\ ~last'.execute =>
                /\ IsNull(row.exit_code)
                /\ IsNull(row.error_output)
                /\ after.error_count = before.error_count
                /\ after.success_count = before.success_count]_vars

\* A command that timed out, recorded in a session that already counts a
\* success: the row carries -1 and the timeout text, and error_count is 1.
C39_Witness ==
    /\ last.op = "record" /\ last.execute /\ last.run.kind = "timeout"
    /\ commands[last.ret].exit_code = Some(-1)
    /\ commands[last.ret].error_output = Some("Command timed out after 5 minutes")
    /\ Val(last.before).success_count = 1
    /\ sessions[last.sid].success_count = 1
    /\ sessions[last.sid].error_count = Val(last.before).error_count + 1

\* A command recorded without being executed, in a session with counts.
C39_WitnessNotRun ==
    /\ last.op = "record" /\ ~last.execute
    /\ IsNull(commands[last.ret].exit_code)
    /\ Val(last.before).command_count > 0
    /\ sessions[last.sid].success_count + sessions[last.sid].error_count
        < sessions[last.sid].command_count

====
